---------------------------- MODULE Spec2Model ----------------------------
(***************************************************************************)
(* A model of stdoc, the silent-tower documentation generator: the bundle  *)
(* tree and its configuration lookup (collect.py), the page records and    *)
(* their URLs (pageinfo.py), the path arithmetic (util.py) and the         *)
(* pipeline of main() with label resolution and cross-reference patching   *)
(* (__main__.py).                                                          *)
(*                                                                         *)
(* Python str values are TLA+ strings; TLC evaluates Len, SubSeq, Head,    *)
(* Tail and \o on them.  Python's None is the value None below.  An        *)
(* ordered dict is a sequence of <<key, value>> pairs in insertion order.  *)
(***************************************************************************)
EXTENDS Integers, Sequences, FiniteSets, TLC

VARIABLES
    fs,                 \* the input tree: configuration files, sources, folders
    pc,                 \* the position of main()
    bundles,            \* the Bundle objects, in creation order
    pageObjs,           \* the PageInfo objects, in creation order
    mainBundle,         \* main()'s mainBundle: a Bundle object, 0 for None
    idx,                \* the loop counter of the current phase
    unresolved_labels,  \* __main__.unresolved_labels
    console,            \* what has been printed: diagnostics and reports
    trace,              \* the resolve_label calls of the last step
    written,            \* the files and folders written, in order
    call                \* the call under test of the configuration harness

vars == <<fs, pc, bundles, pageObjs, mainBundle, idx, unresolved_labels,
          console, trace, written, call>>

-----------------------------------------------------------------------------
(* Python values *)

\* Python's None (never a value a string operation of the model produces).
None == "<None>"

\* A local variable: `x = v` followed by the statements F of x.
With(x, F(_)) == F(x)

\* str.startswith
startswith(s, p) == Len(p) <= Len(s) /\ SubSeq(s, 1, Len(p)) = p

\* str.endswith
endswith(s, p) == Len(p) <= Len(s) /\ SubSeq(s, Len(s) - Len(p) + 1, Len(s)) = p

\* s[n:] for n >= 0
sliceFrom(s, n) == SubSeq(s, n + 1, Len(s))

\* s[:-n] for n > 0
sliceDropLast(s, n) == SubSeq(s, 1, Len(s) - n)

\* The character s[i] (1-based).
charAt(s, i) == SubSeq(s, i, i)

\* str.find(c) for a single character, 1-based; 0 when absent.
RECURSIVE findFrom(_, _, _)
findFrom(s, c, i) ==
    IF i > Len(s) THEN 0
    ELSE IF charAt(s, i) = c THEN i
    ELSE findFrom(s, c, i + 1)

\* str.rfind(c) for a single character, 1-based; 0 when absent.
RECURSIVE rfindFrom(_, _, _)
rfindFrom(s, c, i) ==
    IF i < 1 THEN 0
    ELSE IF charAt(s, i) = c THEN i
    ELSE rfindFrom(s, c, i - 1)

\* str.split(c) for a single-character separator.
RECURSIVE split(_, _)
split(s, c) ==
    LET i == findFrom(s, c, 1) IN
    IF i = 0 THEN <<s>>
    ELSE <<SubSeq(s, 1, i - 1)>> \o split(sliceFrom(s, i), c)

\* str.replace(a, b) for a single character a.
RECURSIVE replaceChar(_, _, _)
replaceChar(s, a, b) ==
    IF s = "" THEN ""
    ELSE (IF Head(s) = a THEN b ELSE Head(s)) \o replaceChar(Tail(s), a, b)

\* str.rstrip(c) for a single character.
RECURSIVE rstrip(_, _)
rstrip(s, c) ==
    IF s # "" /\ charAt(s, Len(s)) = c THEN rstrip(sliceDropLast(s, 1), c) ELSE s

\* c.join(parts)
RECURSIVE joinWith(_, _)
joinWith(c, parts) ==
    IF Len(parts) = 0 THEN ""
    ELSE IF Len(parts) = 1 THEN parts[1]
    ELSE parts[1] \o c \o joinWith(c, Tail(parts))

\* The characters of the model's strings, in code point order.
CodePoints == "-./0123456789:<=>@_abcdefghijklmnopqrstuvwxyz"

\* ord(c), up to an order-preserving renumbering.
ord(c) == findFrom(CodePoints, c, 1)

\* s < t for Python strings (lexicographic by code point).
RECURSIVE strLess(_, _)
strLess(s, t) ==
    IF t = "" THEN FALSE
    ELSE IF s = "" THEN TRUE
    ELSE IF Head(s) = Head(t) THEN strLess(Tail(s), Tail(t))
    ELSE ord(Head(s)) < ord(Head(t))

\* sorted(S) for a set of strings.
RECURSIVE sorted(_)
sorted(S) ==
    IF S = {} THEN <<>>
    ELSE LET m == CHOOSE x \in S : \A y \in S \ {x} : strLess(x, y)
         IN <<m>> \o sorted(S \ {m})

\* The elements of a sequence.
Range(q) == {q[i] : i \in DOMAIN q}

\* An ordered dict: d[k] = v (a key keeps the place of its first insertion).
RECURSIVE dictSet(_, _, _)
dictSet(d, k, v) ==
    IF Len(d) = 0 THEN <<<<k, v>>>>
    ELSE IF d[1][1] = k THEN <<<<k, v>>>> \o Tail(d)
    ELSE <<d[1]>> \o dictSet(Tail(d), k, v)

dictKeys(d) == [i \in DOMAIN d |-> d[i][1]]
dictValues(d) == [i \in DOMAIN d |-> d[i][2]]
dictHas(d, k) == \E i \in DOMAIN d : d[i][1] = k
dictGet(d, k) == d[CHOOSE i \in DOMAIN d : d[i][1] = k][2]

\* dict.update
RECURSIVE dictUpdate(_, _)
dictUpdate(d, e) ==
    IF Len(e) = 0 THEN d
    ELSE dictUpdate(dictSet(d, e[1][1], e[1][2]), Tail(e))

-----------------------------------------------------------------------------
(* os.path (posixpath) *)

\* os.path.join(a, b)
pathJoin(a, b) ==
    IF startswith(b, "/") THEN b
    ELSE IF a = "" \/ endswith(a, "/") THEN a \o b
    ELSE a \o "/" \o b

\* os.path.join(a, b, c)
pathJoin3(a, b, c) == pathJoin(pathJoin(a, b), c)

\* The component stack of os.path.normpath.
RECURSIVE normComps(_, _, _)
normComps(comps, acc, rooted) ==
    IF Len(comps) = 0 THEN acc
    ELSE LET c == Head(comps) IN
         IF c = "" \/ c = "." THEN normComps(Tail(comps), acc, rooted)
         ELSE IF c # ".."
                 \/ (~rooted /\ Len(acc) = 0)
                 \/ (Len(acc) > 0 /\ acc[Len(acc)] = "..")
              THEN normComps(Tail(comps), Append(acc, c), rooted)
         ELSE IF Len(acc) > 0
              THEN normComps(Tail(comps), SubSeq(acc, 1, Len(acc) - 1), rooted)
         ELSE normComps(Tail(comps), acc, rooted)

\* os.path.normpath
normpath(path) ==
    IF path = "" THEN "."
    ELSE LET slashes == IF ~startswith(path, "/") THEN ""
                        ELSE IF startswith(path, "//") /\ ~startswith(path, "///")
                             THEN "//" ELSE "/"
             body == joinWith("/", normComps(split(path, "/"), <<>>, slashes # ""))
         IN With(slashes \o body, LAMBDA r : IF r = "" THEN "." ELSE r)

\* os.path.split
pathSplit(p) ==
    LET i == rfindFrom(p, "/", Len(p))
        head == SubSeq(p, 1, i)
        tail == sliceFrom(p, i)
    IN <<IF head # "" /\ rstrip(head, "/") # "" THEN rstrip(head, "/") ELSE head,
         tail>>

\* os.path.dirname
dirname(p) == pathSplit(p)[1]

\* os.path.relpath("/", base) for an absolute base: one ".." per component.
relpathFromRoot(base) ==
    With(SelectSeq(split(normpath(base), "/"), LAMBDA x : x # ""),
         LAMBDA start : IF Len(start) = 0 THEN "."
                        ELSE joinWith("/", [i \in DOMAIN start |-> ".."]))

-----------------------------------------------------------------------------
(* Configuration values, as yaml.safe_load builds them: a node is a mapping *)
(* (an ordered dict of nodes), a list of nodes, a str, a bool, an int or    *)
(* None.                                                                    *)

Map(d) == [t |-> "map", v |-> d]
List(q) == [t |-> "list", v |-> q]
Str(s) == [t |-> "str", v |-> s]
Bool(b) == [t |-> "bool", v |-> b]
Num(n) == [t |-> "int", v |-> n]
NoneNode == [t |-> "none", v |-> None]

\* bool(node): Python truthiness.
truthy(n) ==
    CASE n.t = "map" -> Len(n.v) > 0
      [] n.t = "list" -> Len(n.v) > 0
      [] n.t = "str" -> n.v # ""
      [] n.t = "bool" -> n.v
      [] n.t = "int" -> n.v # 0
      [] OTHER -> FALSE

\* sub in s, for two strings.
isSubstr(sub, s) ==
    \/ sub = ""
    \/ \E i \in 1..(Len(s) - Len(sub) + 1) : SubSeq(s, i, i + Len(sub) - 1) = sub

\* The result of a call: the exception it raised (None when it returned) and
\* the value it returned.
Returned(v) == [exc |-> None, value |-> v]
Raised(e) == [exc |-> e, value |-> NoneNode]

\* Bundle.config.lookup: <<found, value>>, or the TypeError of `in` or of the
\* subscript on a value that is no mapping.
RECURSIVE lookup(_, _, _, _)
lookup(dic, fields, i, default) ==
    IF i > Len(fields) THEN [exc |-> None, found |-> TRUE, value |-> dic]
    ELSE CASE dic.t = "map" ->
                IF ~dictHas(dic.v, fields[i])
                THEN [exc |-> None, found |-> FALSE, value |-> default]
                ELSE lookup(dictGet(dic.v, fields[i]), fields, i + 1, default)
           [] dic.t = "str" ->
                IF ~isSubstr(fields[i], dic.v)
                THEN [exc |-> None, found |-> FALSE, value |-> default]
                ELSE [exc |-> "TypeError", found |-> FALSE, value |-> NoneNode]
           [] dic.t = "list" ->
                IF ~(\E k \in DOMAIN dic.v : dic.v[k] = Str(fields[i]))
                THEN [exc |-> None, found |-> FALSE, value |-> default]
                ELSE [exc |-> "TypeError", found |-> FALSE, value |-> NoneNode]
           [] OTHER -> [exc |-> "TypeError", found |-> FALSE, value |-> NoneNode]

\* Bundle.config.lookupInBundle, on the Bundle objects bs.
RECURSIVE lookupInBundle(_, _, _, _)
lookupInBundle(bs, b, fields, default) ==
    With(lookup(bs[b]._config, fields, 1, default), LAMBDA r :
         IF r.exc # None THEN Raised(r.exc)
         ELSE IF ~r.found /\ bs[b]._parent # 0
              THEN lookupInBundle(bs, bs[b]._parent, fields, default)
         ELSE Returned(r.value))

\* Bundle.config(query, default) of Bundle object b.
config(bs, b, query, default) ==
    lookupInBundle(bs, b, IF query # "" THEN split(query, ".") ELSE <<>>, default)

-----------------------------------------------------------------------------
(* The input tree *)

\* The configuration file of a directory: its parsed mapping, or None when
\* the directory holds no stdoc.conf.
confOf(f, dirpath) ==
    With(normpath(dirpath), LAMBDA d :
         IF dictHas(f.conf, d) THEN dictGet(f.conf, d) ELSE NoneNode)

-----------------------------------------------------------------------------
(* Bundles.  A Bundle object is named by its place in `bundles`; 0 is None. *)

\* Bundle.__init__: the new object, or the exception of a missing stdoc.conf.
Bundle(f, dirpath) ==
    With(confOf(f, dirpath), LAMBDA conf :
         IF conf = NoneNode THEN Raised("Exception")
         ELSE Returned([_dir |-> dirpath,
                        _config |-> conf,
                        _subdirs |-> <<>>,
                        _parent |-> 0,
                        _pages |-> None,
                        _statics |-> <<>>]))

\* Bundle.registerSubdir
registerSubdir(bs, b, subdir, sb) ==
    [bs EXCEPT ![b]._subdirs = dictSet(@, subdir, sb),
               ![sb]._parent = b]

\* The strings a `for` loop draws from a configuration value.
iterate(n) ==
    CASE n.t = "list" -> [i \in DOMAIN n.v |-> n.v[i].v]
      [] n.t = "map" -> dictKeys(n.v)
      [] n.t = "str" -> [i \in 1..Len(n.v) |-> charAt(n.v, i)]
      [] OTHER -> <<>>

\* loadBundle(dirpath, recursive) on the heap st.bs: the heap with the objects
\* it built, what it printed, and the object it returned (0 for None).
RECURSIVE loadBundle(_, _, _, _)
RECURSIVE loadSubdirs(_, _, _, _, _)
loadBundle(f, st, dirpath, recursive) ==
    With(Bundle(f, dirpath), LAMBDA made :
         IF made.exc # None
         THEN [bs |-> st.bs,
               out |-> Append(st.out, "error: " \o dirpath
                                      \o ": cannot load bundle (skipping)"),
               b |-> 0]
         ELSE With(Append(st.bs, made.value), LAMBDA bs1 :
                   IF ~recursive THEN [bs |-> bs1, out |-> st.out, b |-> Len(bs1)]
                   ELSE loadSubdirs(f, [bs |-> bs1, out |-> st.out, b |-> Len(bs1)],
                                    Len(bs1),
                                    iterate(config(bs1, Len(bs1), "inputs.bundles",
                                                   List(<<>>)).value),
                                    1)))

\* loadSubdirs giving up the remaining sub-bundles at the first one that
\* fails to load.
loadSubdirsStopAtFailure(f, st, b, subdirs, i) ==
    IF i > Len(subdirs) THEN [bs |-> st.bs, out |-> st.out, b |-> b]
    ELSE With(loadBundle(f, st, subdirs[i], TRUE), LAMBDA r :
              IF r.b = 0 THEN [bs |-> r.bs, out |-> r.out, b |-> b]
              ELSE loadSubdirs(f,
                               [bs |-> registerSubdir(r.bs, b, subdirs[i], r.b),
                                out |-> r.out, b |-> b],
                               b, subdirs, i + 1))

\* The loop of loadBundle over the declared sub-bundles.
loadSubdirs(f, st, b, subdirs, i) ==
    IF i > Len(subdirs) THEN [bs |-> st.bs, out |-> st.out, b |-> b]
    ELSE With(loadBundle(f, st, subdirs[i], TRUE), LAMBDA r :
              loadSubdirs(f,
                          [bs |-> IF r.b # 0 THEN registerSubdir(r.bs, b, subdirs[i], r.b)
                                  ELSE r.bs,
                           out |-> r.out, b |-> b],
                          b, subdirs, i + 1))

\* Bundle.iterBundles: the bundle and its sub-bundles, depth-first.
RECURSIVE iterBundles(_, _)
RECURSIVE iterBundlesOf(_, _, _)
iterBundles(bs, b) == <<b>> \o iterBundlesOf(bs, dictValues(bs[b]._subdirs), 1)
iterBundlesOf(bs, subs, i) ==
    IF i > Len(subs) THEN <<>>
    ELSE iterBundles(bs, subs[i]) \o iterBundlesOf(bs, subs, i + 1)

\* Bundle.iterParents: the bundle, then its ancestors up to the root.
RECURSIVE iterParents(_, _)
iterParents(bs, b) ==
    <<b>> \o (IF bs[b]._parent # 0 THEN iterParents(bs, bs[b]._parent) ELSE <<>>)

-----------------------------------------------------------------------------
(* Page discovery *)

\* os.path.splitext(filename)[0], for a filename without "/".
RECURSIVE onlyDots(_)
onlyDots(s) == s = "" \/ (Head(s) = "." /\ onlyDots(Tail(s)))
splitextStem(filename) ==
    LET dot == rfindFrom(filename, ".", Len(filename)) IN
    IF dot = 0 \/ onlyDots(SubSeq(filename, 1, dot - 1)) THEN filename
    ELSE SubSeq(filename, 1, dot - 1)

\* fnmatch.fnmatch(name, pat), for the patterns "*<suffix>" and "<literal>".
fnmatch(name, pat) ==
    IF startswith(pat, "*") THEN endswith(name, sliceFrom(pat, 1)) ELSE name = pat

\* filesystemSearch.toStringList on a configuration value.
toStringList(n) ==
    CASE n.t = "none" -> <<>>
      [] n.t = "str" -> <<n.v>>
      [] n.t = "list" -> [i \in DOMAIN n.v |-> n.v[i].v]
      [] OTHER -> <<>>

\* dict.get(key) on a mapping node.
nodeGet(n, key) == IF dictHas(n.v, key) THEN dictGet(n.v, key) ELSE NoneNode

\* Every file and folder of the input tree, as a path from the working
\* directory.
entries(f) == Range(dictKeys(f.sources)) \cup f.staticDirs

\* The last component of a path.
basename(path) == pathSplit(path)[2]

\* The entries below the folder dirpath, as paths from it.
below(f, dirpath) ==
    With(normpath(dirpath), LAMBDA d :
         IF d = "." THEN entries(f)
         ELSE {sliceFrom(e, Len(d) + 1) :
                  e \in {x \in entries(f) : startswith(x, d \o "/")}})

\* glob.glob(os.path.join(dirpath, "**", mf), recursive=True)
globFiles(f, dirpath, mf) ==
    {pathJoin(dirpath, e) : e \in {x \in below(f, dirpath) : fnmatch(basename(x), mf)}}

\* glob.glob(os.path.join(dirpath, mp)) for a pattern without wildcard.
globPath(f, dirpath, mp) ==
    {pathJoin(dirpath, e) : e \in {x \in below(f, dirpath) : x = normpath(mp)}}

\* Whether filesystemSearch keeps the candidate c (already made relative to
\* dirpath).
keepCandidate(c, fss, ignoreSubpaths) ==
    LET comps == split(c, "/") IN
    /\ \A ef \in Range(toStringList(nodeGet(fss, "exclude_folders"))) :
          ~fnmatch(comps[1], ef)
    /\ \A ef \in Range(toStringList(nodeGet(fss, "exclude_files"))) :
          ~fnmatch(comps[Len(comps)], ef)
    /\ \A isp \in Range(ignoreSubpaths) : ~startswith(c, rstrip(isp, "/") \o "/")

\* filesystemSearch(dirpath, fss, ignoreSubpaths): the sorted matches, or the
\* AssertionError of a candidate that does not start with dirpath + "/".
filesystemSearch(f, dirpath, fss, ignoreSubpaths) ==
    LET mfs == toStringList(nodeGet(fss, "match_files"))
        mps == toStringList(nodeGet(fss, "match_paths"))
        rel(c) == sliceFrom(c, Len(dirpath) + 1)
    IN With(UNION {globFiles(f, dirpath, mf) : mf \in Range(mfs)}
            \cup UNION {globPath(f, dirpath, mp) : mp \in Range(mps)},
            LAMBDA candidates :
            IF \E c \in candidates : ~startswith(c, dirpath \o "/")
            THEN [exc |-> "AssertionError", value |-> <<>>]
            ELSE [exc |-> None,
                  value |-> sorted({rel(c) : c \in {x \in candidates :
                                       keepCandidate(rel(x), fss, ignoreSubpaths)}})])

\* Bundle._findPages
_findPages(f, bs, b) ==
    With(config(bs, b, "inputs.pages", NoneNode), LAMBDA fss :
         IF fss.exc # None THEN [exc |-> fss.exc, value |-> <<>>]
         ELSE IF fss.value = NoneNode THEN [exc |-> None, value |-> <<>>]
         ELSE filesystemSearch(f, bs[b]._dir, fss.value, dictKeys(bs[b]._subdirs)))

\* The first language code of langs that is a suffix "-<code>" of basename;
\* 0 when there is none.
RECURSIVE firstSuffix(_, _, _)
firstSuffix(stem, langs, i) ==
    IF i > Len(langs) THEN 0
    ELSE IF endswith(stem, "-" \o langs[i]) THEN i
    ELSE firstSuffix(stem, langs, i + 1)

\* The end of Bundle.checkLangSuffix: the id and the language of the file
\* dir/stem, whose suffix is that of the k-th language code (0: of none).
checkLangSuffixOf(bs, b, dir, stem, langs, k) ==
    IF truthy(config(bs, b, "inputs.lang_suffix", Bool(FALSE)).value) /\ k # 0
    THEN <<pathJoin(dir, sliceDropLast(stem, Len(langs[k]) + 1)), langs[k]>>
    ELSE <<pathJoin(dir, stem), None>>

\* Bundle.checkLangSuffix(path): <<id, lang>>, lang None without suffix.
checkLangSuffix(bs, b, path) ==
    With(pathSplit(normpath(pathJoin(bs[b]._dir, path))), LAMBDA dirAndBase :
    With(splitextStem(dirAndBase[2]), LAMBDA stem :
    With(iterate(config(bs, b, "languages", Map(<<>>)).value), LAMBDA langs :
         checkLangSuffixOf(bs, b, dirAndBase[1], stem, langs,
                           firstSuffix(stem, langs, 1)))))

\* PageInfo(bundle=b, id=id, lang=lang)
PageInfo(b, id, lang) ==
    [bundle |-> b, id |-> id, lang |-> lang, url_override |-> None,
     template |-> "base.html", local_static |-> "/", title |-> "",
     label_namespace |-> "", labels |-> <<>>, tree |-> <<>>, fragments |-> <<>>]

\* os.path.isdir(path), from the working directory.
isdir(f, path) == normpath(path) \in f.staticDirs

\* The loop of Bundle.loadPages over the found paths: the page objects and
\* the bundle's _pages.
RECURSIVE loadPagesLoop(_, _, _, _, _, _)
loadPagesLoop(bs, b, paths, i, objs, pages) ==
    IF i > Len(paths) THEN [objs |-> objs, pages |-> pages]
    ELSE With(checkLangSuffix(bs, b, paths[i]), LAMBDA il :
              loadPagesLoop(bs, b, paths, i + 1,
                            Append(objs,
                                   PageInfo(b, il[1],
                                            IF il[2] = None
                                            THEN config(bs, b, "language", Str("en")).value.v
                                            ELSE il[2])),
                            dictSet(pages, normpath(pathJoin(bs[b]._dir, paths[i])),
                                    Len(objs) + 1)))

\* The end of Bundle.loadPages, after the loop's result r: the search of
\* the _static folders, of which the directories give the bundle's _statics.
loadStatics(f, bs, b, r, statics) ==
    IF statics.exc # None
    THEN [exc |-> statics.exc, bs |-> [bs EXCEPT ![b]._pages = r.pages], objs |-> r.objs]
    ELSE With(SelectSeq(statics.value, LAMBDA path : isdir(f, path)), LAMBDA dirs :
              [exc |-> None,
               bs |-> [bs EXCEPT ![b]._pages = r.pages,
                                 ![b]._statics = [i \in DOMAIN dirs |-> dirname(dirs[i])]],
               objs |-> r.objs])

\* Bundle.loadPages: the heaps after it, and the exception it raised.
loadPages(f, bs, objs, b) ==
    IF bs[b]._pages # None THEN [exc |-> None, bs |-> bs, objs |-> objs]
    ELSE With(_findPages(f, bs, b), LAMBDA found :
              IF found.exc # None
              THEN [exc |-> found.exc, bs |-> [bs EXCEPT ![b]._pages = <<>>],
                    objs |-> objs]
              ELSE loadStatics(f, bs, b,
                               loadPagesLoop(bs, b, found.value, 1, objs, <<>>),
                               filesystemSearch(f, bs[b]._dir,
                                   Map(<<<<"match_files", Str("_static")>>>>),
                                   dictKeys(bs[b]._subdirs))))

\* Bundle.pagesRecursively: the ordered dict from source path to page object.
RECURSIVE mergePages(_, _, _, _)
mergePages(bs, order, i, pages) ==
    IF i > Len(order) THEN pages
    ELSE mergePages(bs, order, i + 1, dictUpdate(pages, bs[order[i]]._pages))
pagesRecursively(bs, b) == mergePages(bs, iterBundles(bs, b), 1, <<>>)

\* Bundle.labelNamespace
labelNamespace(bs, b) ==
    IF bs[b]._dir = "." THEN "" ELSE ":" \o replaceChar(bs[b]._dir, "/", ":")

\* Bundle.localStaticFromPath
RECURSIVE longestStatic(_, _, _, _)
longestStatic(statics, path, i, best) ==
    IF i > Len(statics) THEN best
    ELSE longestStatic(statics, path, i + 1,
                       IF startswith(path, statics[i]) /\ Len(statics[i]) > Len(best)
                       THEN statics[i] ELSE best)
localStaticFromPath(bs, b, path) == longestStatic(bs[b]._statics, normpath(path), 1, "")

-----------------------------------------------------------------------------
(* Paths and URLs (util.py).  An Url object is its valid _path string. *)

\* AbstractPath.assertValid: whether it returns.
validPath(path) == startswith(path, "/") /\ ~(path # "/" /\ endswith(path, "/"))

\* A result whose value is a str.
ReturnedStr(x) == [exc |-> None, value |-> x]
RaisedStr(e) == [exc |-> e, value |-> None]

\* Url(path)
Url(path) == IF validPath(path) THEN ReturnedStr(path) ELSE RaisedStr("Exception")

\* AbstractPath._relpath(target) of the path self.
_relpath(self, target) ==
    With(dirname(self), LAMBDA base :
         IF ~validPath(target) \/ ~validPath(base) THEN RaisedStr("Exception")
         ELSE IF base = "/" /\ target # "/" THEN ReturnedStr(sliceFrom(target, 1))
         ELSE With(relpathFromRoot(base), LAMBDA up :
                   IF target = "/" THEN ReturnedStr(up)
                   ELSE ReturnedStr(pathJoin(up, sliceFrom(target, 1)))))

\* Url.__mod__: target % base
urlMod(target, base) == _relpath(base, target)

\* Url.__truediv__: url / subdir
urlDiv(url, subdir) == Url(pathJoin(url, subdir))

\* Url.addHtmlSuffix
addHtmlSuffix(url) == Url(url \o (IF endswith(url, "/") THEN "index.html" ELSE ".html"))

-----------------------------------------------------------------------------
(* Pages (pageinfo.py).  A PageInfo object is named by its place in          *)
(* `pageObjs`; the operators below take the object's record pg.              *)

\* PageInfo._url_components(force_suffix): <<lang, path, suffix>>.
_url_components(bs, pg, force_suffix) ==
    LET path == "/" \o pg.id IN
    With(config(bs, pg.bundle, "languages", Bool(FALSE)), LAMBDA langs :
    With(IF force_suffix THEN Returned(Bool(TRUE))
         ELSE config(bs, pg.bundle, "urls.html_suffix", NoneNode), LAMBDA sfx :
         IF langs.exc # None THEN [exc |-> langs.exc, value |-> <<>>]
         ELSE IF sfx.exc # None THEN [exc |-> sfx.exc, value |-> <<>>]
         ELSE [exc |-> None,
               value |-> <<IF truthy(langs.value) THEN "/" \o pg.lang ELSE "",
                           path,
                           IF truthy(sfx.value)
                           THEN (IF endswith(path, "/") THEN "index.hml" ELSE ".html")
                           ELSE "">>]))

\* PageInfo._default_url(lang=, suffix=, force_suffix=)
_default_url(bs, pg, lang, suffix, force_suffix) ==
    With(_url_components(bs, pg, force_suffix), LAMBDA c :
         IF c.exc # None THEN RaisedStr(c.exc)
         ELSE Url((IF lang THEN c.value[1] ELSE "") \o c.value[2]
                  \o (IF suffix THEN c.value[3] ELSE "")))

\* PageInfo._overridden_url(force_suffix=)
_overridden_url(bs, pg, force_suffix) ==
    With(IF force_suffix THEN Returned(Bool(TRUE))
         ELSE config(bs, pg.bundle, "urls.html_suffix", NoneNode), LAMBDA sfx :
         IF sfx.exc # None THEN RaisedStr(sfx.exc)
         ELSE IF truthy(sfx.value) THEN addHtmlSuffix(pg.url_override)
         ELSE ReturnedStr(pg.url_override))

\* PageInfo.url
url(bs, pg) ==
    IF pg.url_override # None THEN _overridden_url(bs, pg, FALSE)
    ELSE _default_url(bs, pg, TRUE, TRUE, FALSE)

\* PageInfo.output_path
output_path(bs, pg) ==
    With(IF pg.url_override # None THEN _overridden_url(bs, pg, TRUE)
         ELSE _default_url(bs, pg, TRUE, TRUE, TRUE), LAMBDA u :
         IF u.exc # None THEN u
         ELSE IF ~startswith(u.value, "/") \/ ~endswith(u.value, ".html")
              THEN RaisedStr("AssertionError")
         ELSE With(config(bs, pg.bundle, "outputs.folder", Str("_www")), LAMBDA folder :
                   IF folder.exc # None THEN RaisedStr(folder.exc)
                   ELSE ReturnedStr(pathJoin(folder.value.v, sliceFrom(u.value, 1)))))

\* PageInfo.relpath(target)
relpath(bs, pg, target) ==
    With(url(bs, pg), LAMBDA u : IF u.exc # None THEN u ELSE urlMod(target, u.value))

\* add_label registering the name as given, without the page's namespace.
add_labelUnqualified(pg, name, target) ==
    [labels |-> dictSet(pg.labels, name, target),
     out |-> IF dictHas(pg.labels, name)
             THEN <<"error: multiple definitions of label " \o name
                    \o "; overriding to '" \o target \o "'">>
             ELSE <<>>]

\* add_label keeping the target of the first registration of a key.
add_labelFirstWins(pg, name, target) ==
    LET key == pg.label_namespace \o ":" \o name IN
    [labels |-> IF dictHas(pg.labels, key) THEN pg.labels
                ELSE dictSet(pg.labels, key, target),
     out |-> IF dictHas(pg.labels, key)
             THEN <<"error: multiple definitions of label " \o key
                    \o "; overriding to '" \o target \o "'">>
             ELSE <<>>]

\* PageInfo.add_label(name, target): the page's labels after it and what it
\* printed.
add_label(pg, name, target) ==
    LET key == pg.label_namespace \o ":" \o name IN
    [labels |-> dictSet(pg.labels, key, target),
     out |-> IF dictHas(pg.labels, key)
             THEN <<"error: multiple definitions of label " \o key
                    \o "; overriding to '" \o target \o "'">>
             ELSE <<>>]

-----------------------------------------------------------------------------
(* The metadata-extraction pass (collect.initialParse).  The markup engine  *)
(* is outside the model: what it returns for a source file (md.Meta, the    *)
(* tree and the fragments) is the file's entry of fs.sources.               *)

\* metaItem keeping a ".html" the metadata spells at the end of the URL
\* override.
metaItemKeepsHtmlSuffix(acc, path, key, value) ==
    IF key = "title" /\ Len(value) = 1 THEN [acc EXCEPT !.pg.title = value[1]]
    ELSE IF key = "url" /\ Len(value) = 1 THEN
        LET rooted == IF ~startswith(value[1], "/") THEN "/" \o value[1] ELSE value[1]
            u == Url(rooted)
        IN IF u.exc # None THEN [acc EXCEPT !.exc = u.exc]
           ELSE [acc EXCEPT !.pg.url_override = u.value]
    ELSE IF key = "lang" /\ Len(value) = 1 THEN [acc EXCEPT !.pg.lang = value[1]]
    ELSE IF key = "template" /\ Len(value) = 1 THEN [acc EXCEPT !.pg.template = value[1]]
    ELSE IF key = "label" THEN
        IF \A k \in DOMAIN value : startswith(value[k], "@")
        THEN [acc EXCEPT !.fileLabels = @ \o value]
        ELSE [acc EXCEPT !.exc = "AssertionError"]
    ELSE [acc EXCEPT !.out = Append(@, "warning: " \o path \o ": unknown metadata '"
                                       \o key \o "'")]

\* One iteration of the loop over md.Meta.items().
metaItem(acc, path, key, value) ==
    IF key = "title" /\ Len(value) = 1 THEN [acc EXCEPT !.pg.title = value[1]]
    ELSE IF key = "url" /\ Len(value) = 1 THEN
        LET stripped == IF endswith(value[1], ".html")
                        THEN sliceDropLast(value[1], 5) ELSE value[1]
            rooted == IF ~startswith(stripped, "/") THEN "/" \o stripped ELSE stripped
            u == Url(rooted)
            out1 == IF endswith(value[1], ".html")
                    THEN Append(acc.out, path \o ": URL override " \o value[1]
                                         \o " should omit '.html' suffix")
                    ELSE acc.out
        IN IF u.exc # None THEN [acc EXCEPT !.out = out1, !.exc = u.exc]
           ELSE [acc EXCEPT !.out = out1, !.pg.url_override = u.value]
    ELSE IF key = "lang" /\ Len(value) = 1 THEN [acc EXCEPT !.pg.lang = value[1]]
    ELSE IF key = "template" /\ Len(value) = 1 THEN [acc EXCEPT !.pg.template = value[1]]
    ELSE IF key = "label" THEN
        IF \A k \in DOMAIN value : startswith(value[k], "@")
        THEN [acc EXCEPT !.fileLabels = @ \o value]
        ELSE [acc EXCEPT !.exc = "AssertionError"]
    ELSE [acc EXCEPT !.out = Append(@, "warning: " \o path \o ": unknown metadata '"
                                       \o key \o "'")]

\* The loop over md.Meta.items(); it stops at the first exception.
RECURSIVE metaLoop(_, _, _, _)
metaLoop(acc, path, meta, i) ==
    IF i > Len(meta) \/ acc.exc # None THEN acc
    ELSE metaLoop(metaItem(acc, path, meta[i][1], meta[i][2]), path, meta, i + 1)

RECURSIVE labelLoop(_, _, _)

\* labelLoop registering the page's default URL, whatever its URL override.
labelLoopDefaultUrl(bs, acc, i) ==
    IF i > Len(acc.fileLabels) \/ acc.exc # None THEN acc
    ELSE LET name == sliceFrom(acc.fileLabels[i], 1) IN
         With(_default_url(bs, acc.pg, TRUE, TRUE, FALSE), LAMBDA u :
              IF u.exc # None THEN [acc EXCEPT !.exc = u.exc]
              ELSE IF startswith(name, "@") THEN [acc EXCEPT !.exc = "AssertionError"]
              ELSE With(add_label(acc.pg, name, u.value), LAMBDA r :
                        labelLoop(bs, [acc EXCEPT !.pg.labels = r.labels,
                                                  !.out = @ \o r.out],
                                  i + 1)))

\* The loop `for l in fileLabels: p.add_label(l[1:], p.url())`.
labelLoop(bs, acc, i) ==
    IF i > Len(acc.fileLabels) \/ acc.exc # None THEN acc
    ELSE LET name == sliceFrom(acc.fileLabels[i], 1) IN
         With(url(bs, acc.pg), LAMBDA u :
              IF u.exc # None THEN [acc EXCEPT !.exc = u.exc]
              ELSE IF startswith(name, "@") THEN [acc EXCEPT !.exc = "AssertionError"]
              ELSE With(add_label(acc.pg, name, u.value), LAMBDA r :
                        labelLoop(bs, [acc EXCEPT !.pg.labels = r.labels,
                                                  !.out = @ \o r.out],
                                  i + 1)))

\* The body of initialParse's loop for the page object pg read from path.
parsePage(f, bs, pg, path) ==
    LET src == dictGet(f.sources, path)
        pg1 == [pg EXCEPT !.label_namespace = labelNamespace(bs, pg.bundle),
                          !.tree = src.tree,
                          !.fragments = src.fragments]
        acc == metaLoop([pg |-> pg1, fileLabels |-> <<>>, out |-> <<>>, exc |-> None],
                        path, src.meta, 1)
    IN labelLoop(bs, acc, 1)

\* The uniqueness assertion of summaryTable: `assert id not in idinfo` fails
\* when two bundles use one id.
summaryAssertion(bs, objs, root) ==
    LET order == iterBundles(bs, root)
        ids(k) == {objs[o].id : o \in Range(dictValues(bs[order[k]]._pages))}
    IN \A j, k \in DOMAIN order : j < k => ids(j) \cap ids(k) = {}

-----------------------------------------------------------------------------
(* Label resolution and patching (__main__.py) *)

\* unresolved_labels as a list: list.append instead of set.add.
setAddAlways(q, x) == Append(q, x)

\* set.add on the set unresolved_labels, kept as the sequence of its elements.
setAdd(q, x) == IF x \in Range(q) THEN q ELSE Append(q, x)

RECURSIVE scanPages(_, _, _, _, _)

\* scanPages without the test of the candidate's language.
scanPagesAnyLanguage(objs, order, key, lang, i) ==
    IF i > Len(order) THEN <<>>
    ELSE LET pg == objs[order[i]]
         IN (IF dictHas(pg.labels, key)
             THEN <<[target |-> dictGet(pg.labels, key), title |-> pg.title,
                     page |-> order[i]]>>
             ELSE <<>>)
            \o scanPages(objs, order, key, lang, i + 1)

\* The hits of resolve_label's scan, in the order of pages.values().
scanPages(objs, order, key, lang, i) ==
    IF i > Len(order) THEN <<>>
    ELSE LET pg == objs[order[i]]
             skip == pg.lang # None /\ lang # None /\ pg.lang # lang
         IN (IF ~skip /\ dictHas(pg.labels, key)
             THEN <<[target |-> dictGet(pg.labels, key), title |-> pg.title,
                     page |-> order[i]]>>
             ELSE <<>>)
            \o scanPages(objs, order, key, lang, i + 1)

\* resolve_label without its first two lines: the label is looked up as given.
qualifyBare(pg, label) == label

\* The absolute key resolve_label makes of a label.
qualify(pg, label) ==
    IF ~startswith(label, ":") THEN pg.label_namespace \o ":" \o label ELSE label

\* resolve_label returning found[-1] instead of found[0].
resolve_labelLast(objs, order, source, label, lang) ==
    LET key == qualify(objs[source], label) IN
    With(scanPages(objs, order, key, lang, 1), LAMBDA found :
         [source |-> source, label |-> label, lang |-> lang, key |-> key,
          nfound |-> Len(found),
          target |-> IF Len(found) = 0 THEN None ELSE found[Len(found)].target,
          title |-> IF Len(found) = 0 THEN "" ELSE found[Len(found)].title,
          page |-> IF Len(found) = 0 THEN 0 ELSE found[Len(found)].page])

\* resolve_label(pages, sourcePage, label, lang), where order is
\* pages.values(): what it returns and what it found.
resolve_label(objs, order, source, label, lang) ==
    LET key == qualify(objs[source], label) IN
    With(scanPages(objs, order, key, lang, 1), LAMBDA found :
         [source |-> source, label |-> label, lang |-> lang, key |-> key,
          nfound |-> Len(found),
          target |-> IF Len(found) = 0 THEN None ELSE found[1].target,
          title |-> IF Len(found) = 0 THEN "" ELSE found[1].title,
          page |-> IF Len(found) = 0 THEN 0 ELSE found[1].page])

\* The effect of a resolve_label call r on unresolved_labels and the console.
resolveEffect(st, r) ==
    [st EXCEPT !.unres = IF r.nfound = 0 THEN setAdd(@, r.key) ELSE @,
               !.out = IF r.nfound > 1
                       THEN Append(@, "error: multiple definitions of label @"
                                      \o r.key \o " found")
                       ELSE @,
               !.trace = Append(@, r)]

\* A tuple as an attribute value.
Tuple(q) == [t |-> "tuple", v |-> q]

\* An <a> element and an <img> element of a tree.  An absent attribute and an
\* absent text are None; src holds the value of an <img>'s src attribute.
A(href, text) ==
    [tag |-> "a", href |-> href, text |-> text, class |-> None, src |-> NoneNode]
Img(src) ==
    [tag |-> "img", href |-> None, text |-> None, class |-> None, src |-> src]

\* replace_url(p, url, pages) for page object pid: the triple it returns (ret)
\* and its effects (st), st.exc being the exception it raised.
replace_url(bs, objs, order, pid, href, st) ==
    LET pg == objs[pid] IN
    IF href = None THEN [ret |-> <<None, None, None>>, st |-> st]
    ELSE IF startswith(href, "=") THEN
        With(urlDiv(pg.local_static, sliceFrom(href, 1)), LAMBDA target :
             IF target.exc # None
             THEN [ret |-> <<None, None, None>>, st |-> [st EXCEPT !.exc = target.exc]]
             ELSE With(relpath(bs, pg, target.value), LAMBDA rp :
                       IF rp.exc # None
                       THEN [ret |-> <<None, None, None>>,
                             st |-> [st EXCEPT !.exc = rp.exc]]
                       ELSE [ret |-> <<rp.value, None, None>>, st |-> st]))
    ELSE IF startswith(href, "=:") THEN
        \* PageInfo has no globalStaticUrl method.
        [ret |-> <<None, None, None>>, st |-> [st EXCEPT !.exc = "AttributeError"]]
    ELSE IF startswith(href, "@") THEN
        With(resolve_label(objs, order, pid, sliceFrom(href, 1), pg.lang), LAMBDA r :
        With(resolveEffect(st, r), LAMBDA st1 :
             IF r.target = None THEN [ret |-> <<None, None, None>>, st |-> st1]
             ELSE With(relpath(bs, pg, r.target), LAMBDA rp :
                       IF rp.exc # None
                       THEN [ret |-> <<None, None, None>>,
                             st |-> [st1 EXCEPT !.exc = rp.exc]]
                       ELSE [ret |-> <<rp.value, href, r.title>>, st |-> st1])))
    ELSE [ret |-> <<href, None, None>>, st |-> st]

\* patch_static_urls leaving an <a> whose URL is None as it was.
patchAKeep(a, ret) ==
    IF ret[1] = None THEN [exc |-> None, el |-> a]
    ELSE [exc |-> None,
          el |-> [a EXCEPT !.href = ret[1],
                           !.text = IF a.text = ret[2] THEN ret[3] ELSE @]]

\* patch_static_urls without the test `a.text == old_text`.
patchAAlwaysTitle(a, ret) ==
    IF ret[1] = None
    THEN IF a.href = None THEN [exc |-> "KeyError", el |-> a]
         ELSE [exc |-> None, el |-> [a EXCEPT !.href = None, !.class = "broken"]]
    ELSE [exc |-> None,
          el |-> [a EXCEPT !.href = ret[1],
                           !.text = IF ret[3] # None THEN ret[3] ELSE @]]

\* The body of patch_static_urls's loop over the <a> elements.
patchA(a, ret) ==
    IF ret[1] = None
    THEN IF a.href = None THEN [exc |-> "KeyError", el |-> a]
         ELSE [exc |-> None, el |-> [a EXCEPT !.href = None, !.class = "broken"]]
    ELSE [exc |-> None,
          el |-> [a EXCEPT !.href = ret[1],
                           !.text = IF a.text = ret[2] THEN ret[3] ELSE @]]

\* The body of patch_static_urls's loop over the <img> elements.
patchImg(img, ret) == [exc |-> None, el |-> [img EXCEPT !.src = Tuple(ret)]]

\* One loop of patch_static_urls, over the elements of tree with the given
\* tag, from the i-th on; it stops at the first exception.
RECURSIVE patchLoop(_, _, _, _, _, _, _, _)
patchLoop(bs, objs, order, pid, tag, tree, i, st) ==
    IF i > Len(tree) \/ st.exc # None THEN [tree |-> tree, st |-> st]
    ELSE IF tree[i].tag # tag THEN patchLoop(bs, objs, order, pid, tag, tree, i + 1, st)
    ELSE LET attr == IF tag = "a" THEN tree[i].href
                     ELSE IF tree[i].src.t = "str" THEN tree[i].src.v ELSE None
         IN With(replace_url(bs, objs, order, pid, attr, st), LAMBDA r :
                 IF r.st.exc # None THEN [tree |-> tree, st |-> r.st]
                 ELSE With(IF tag = "a" THEN patchA(tree[i], r.ret)
                           ELSE patchImg(tree[i], r.ret), LAMBDA e :
                           IF e.exc # None
                           THEN [tree |-> tree, st |-> [r.st EXCEPT !.exc = e.exc]]
                           ELSE patchLoop(bs, objs, order, pid, tag,
                                          [tree EXCEPT ![i] = e.el], i + 1, r.st)))

\* patch_static_urls(p, tree, pages)
patch_static_urls(bs, objs, order, pid, tree, st) ==
    With(patchLoop(bs, objs, order, pid, "a", tree, 1, st), LAMBDA as :
         patchLoop(bs, objs, order, pid, "img", as.tree, 1, as.st))

\* The loop of crossref_pages over p.fragments.values().
RECURSIVE patchFragments(_, _, _, _, _, _, _)
patchFragments(bs, objs, order, pid, frags, i, st) ==
    IF i > Len(frags) \/ st.exc # None THEN [frags |-> frags, st |-> st]
    ELSE With(patch_static_urls(bs, objs, order, pid, frags[i][2], st), LAMBDA r :
              patchFragments(bs, objs, order, pid,
                             [frags EXCEPT ![i] = <<frags[i][1], r.tree>>], i + 1, r.st))

\* crossrefPage storing the static URL as the page's URL override.
crossrefPageSetsOverride(bs, objs, pages, path, pid, st) ==
    LET order == dictValues(pages)
        b == objs[pid].bundle
        inputStatic == localStaticFromPath(bs, b, path)
    IN With(Url(normpath(pathJoin3("/static", bs[b]._dir, inputStatic))),
            LAMBDA urlStatic :
       IF urlStatic.exc # None
       THEN [pg |-> objs[pid], st |-> [st EXCEPT !.exc = urlStatic.exc]]
       ELSE With([objs EXCEPT ![pid].url_override = urlStatic.value], LAMBDA objs1 :
            With(patch_static_urls(bs, objs1, order, pid, objs1[pid].tree, st), LAMBDA t :
            With([objs1 EXCEPT ![pid].tree = t.tree], LAMBDA objs2 :
            With(patchFragments(bs, objs2, order, pid, objs2[pid].fragments, 1, t.st),
                 LAMBDA fr :
                 [pg |-> [objs2[pid] EXCEPT !.fragments = fr.frags], st |-> fr.st])))))

\* The body of crossref_pages's loop for the page object pid at path: the
\* page object after it, and the effects.
crossrefPage(bs, objs, pages, path, pid, st) ==
    LET order == dictValues(pages)
        b == objs[pid].bundle
        inputStatic == localStaticFromPath(bs, b, path)
    IN With(Url(normpath(pathJoin3("/static", bs[b]._dir, inputStatic))),
            LAMBDA urlStatic :
       IF urlStatic.exc # None
       THEN [pg |-> objs[pid], st |-> [st EXCEPT !.exc = urlStatic.exc]]
       ELSE With([objs EXCEPT ![pid].local_static = urlStatic.value], LAMBDA objs1 :
            With(patch_static_urls(bs, objs1, order, pid, objs1[pid].tree, st), LAMBDA t :
            With([objs1 EXCEPT ![pid].tree = t.tree], LAMBDA objs2 :
            With(patchFragments(bs, objs2, order, pid, objs2[pid].fragments, 1, t.st),
                 LAMBDA fr :
                 [pg |-> [objs2[pid] EXCEPT !.fragments = fr.frags], st |-> fr.st])))))

\* The function ref of makeRefFunction(pages, p), called with label.
ref(bs, objs, order, pid, label, st) ==
    IF ~startswith(label, "@") THEN [ret |-> None, st |-> [st EXCEPT !.exc = "AssertionError"]]
    ELSE With(resolve_label(objs, order, pid, sliceFrom(label, 1), objs[pid].lang),
              LAMBDA r :
         With(resolveEffect(st, r), LAMBDA st1 :
              IF r.target = None THEN [ret |-> None, st |-> st1]
              ELSE With(relpath(bs, objs[pid], r.target), LAMBDA rp :
                        IF rp.exc # None
                        THEN [ret |-> None, st |-> [st1 EXCEPT !.exc = rp.exc]]
                        ELSE [ret |-> rp.value, st |-> st1])))

\* The calls of ref a template makes while it renders the page pid.
RECURSIVE refCalls(_, _, _, _, _, _, _)
refCalls(bs, objs, order, pid, labels, i, st) ==
    IF i > Len(labels) \/ st.exc # None THEN st
    ELSE refCalls(bs, objs, order, pid, labels, i + 1,
                  ref(bs, objs, order, pid, labels[i], st).st)

-----------------------------------------------------------------------------
(* The input trees of the pipeline: a root bundle "." with the pages        *)
(* index.md and a/b/about.md, and its sub-bundle "sub" with the page         *)
(* sub/a/p.md; the templates pass the labels of `refs` to ref().             *)

\* The links and images every page holds.
PlainTree ==
    << A("@foo", "@foo"),
       A("@foo", "see foo"),
       A("@:foo", "@:foo"),
       A("@:sub:foo", "@:sub:foo"),
       A("@nope", "@nope"),
       A("=d.png", "diagram"),
       A("=:g.png", "logo"),
       A("x.html", "elsewhere"),
       Img(Str("=d.png")),
       Img(Str("=:g.png")),
       Img(Str("@foo")),
       Img(Str("pic.png")) >>

\* The same with an anchor that has no href.
AnchorTree ==
    SubSeq(PlainTree, 1, 5) \o <<A(None, "anchor")>> \o SubSeq(PlainTree, 6, Len(PlainTree))

Fragments == << <<"side", <<A("@side", "@side"), A("@foo", "@foo")>> >> >>

Source(title, extra, tree) ==
    [meta |-> <<<<"title", <<title>>>>>> \o extra, tree |-> tree, fragments |-> Fragments]

LabelFoo(defined) == IF defined THEN <<<<"label", <<"@foo">>>>>> ELSE <<>>

PipelineWorld(defs, aboutFr, langs, sfx, subFr, statics, anchor) ==
    [conf |->
       << <<".", Map(<< <<"inputs", Map(<< <<"pages", Map(<< <<"match_files", Str("*.md")>> >>)>>,
                                          <<"bundles", List(<<Str("sub")>>)>> >>)>> >>
                     \o (IF langs
                         THEN << <<"languages", Map(<< <<"en", Str("English")>>,
                                                       <<"fr", Str("Francais")>> >>)>> >>
                         ELSE <<>>)
                     \o (IF sfx
                         THEN << <<"urls", Map(<< <<"html_suffix", Bool(TRUE)>> >>)>> >>
                         ELSE <<>>))>>,
          <<"sub", Map(IF subFr THEN << <<"language", Str("fr")>> >> ELSE <<>>)>> >>,
     root |-> ".",
     sources |->
       << <<"index.md", Source("index page", LabelFoo(1 \in defs),
                               IF anchor THEN AnchorTree ELSE PlainTree)>>,
          <<"a/b/about.md", Source("about page",
                                   (IF aboutFr THEN <<<<"lang", <<"fr">>>>>> ELSE <<>>)
                                   \o LabelFoo(2 \in defs), PlainTree)>>,
          <<"sub/a/p.md", Source("sub page", LabelFoo(3 \in defs), PlainTree)>> >>,
     staticDirs |-> IF statics THEN {"a/_static", "a/b/_static", "sub/a/_static"} ELSE {},
     refs |-> {"@foo", "@late"}]

\* The harness variable `call` before any call.
NoCall == [b |-> 0, query |-> "", default |-> NoneNode, result |-> Returned(NoneNode)]

\* The labels the templates of the input tree pass to ref(), and how many
\* calls of ref() the rendering of one page makes at most.
RefLabels == fs.refs
MaxRefCalls == 1
RefCallSeqs == UNION {[1..k -> RefLabels] : k \in 0..MaxRefCalls}

Init ==
    /\ fs \in {PipelineWorld(defs, aboutFr, langs, sfx, subFr, statics, anchor) :
                  defs \in SUBSET {1, 2, 3}, aboutFr \in BOOLEAN, langs \in BOOLEAN,
                  sfx \in BOOLEAN, subFr \in BOOLEAN, statics \in BOOLEAN,
                  anchor \in BOOLEAN}
    /\ pc = "start"
    /\ bundles = <<>>
    /\ pageObjs = <<>>
    /\ mainBundle = 0
    /\ idx = 0
    /\ unresolved_labels = <<>>
    /\ console = <<>>
    /\ trace = <<>>
    /\ written = <<>>
    /\ call = NoCall

-----------------------------------------------------------------------------
(* main() *)

\* An uncaught exception ends the run.
Crash(exc, out) ==
    /\ pc' = "crashed"
    /\ console' = console \o out \o <<"Traceback: " \o exc>>

\* mainBundle = stdoc.collect.loadBundle(argv[1], recursive=True)
LoadMain ==
    /\ pc = "start"
    /\ With(loadBundle(fs, [bs |-> <<>>, out |-> <<>>], fs.root, TRUE), LAMBDA r :
            /\ bundles' = r.bs
            /\ mainBundle' = r.b
            /\ console' = console \o r.out
            /\ pc' = IF r.b = 0 THEN "exit1" ELSE "loadPages")
    /\ idx' = 1
    /\ trace' = <<>>
    /\ UNCHANGED <<fs, pageObjs, unresolved_labels, written, call>>

\* for b in mainBundle.iterBundles(): b.loadPages()
LoadPagesStep ==
    /\ pc = "loadPages"
    /\ With(iterBundles(bundles, mainBundle), LAMBDA order :
            IF idx > Len(order)
            THEN /\ pc' = "parse" /\ idx' = 1
                 /\ UNCHANGED <<bundles, pageObjs, console>>
            ELSE With(loadPages(fs, bundles, pageObjs, order[idx]), LAMBDA r :
                      /\ bundles' = r.bs
                      /\ pageObjs' = r.objs
                      /\ IF r.exc # None THEN Crash(r.exc, <<>>) /\ idx' = idx
                         ELSE pc' = pc /\ idx' = idx + 1 /\ console' = console))
    /\ trace' = <<>>
    /\ UNCHANGED <<fs, mainBundle, unresolved_labels, written, call>>

\* main() calling crossref_pages as soon as the first page is parsed.
ParseStepCrossrefEarly ==
    /\ pc = "parse"
    /\ With(pagesRecursively(bundles, mainBundle), LAMBDA pages :
            IF idx > 1 \/ idx > Len(pages)
            THEN /\ pc' = "crossref" /\ console' = console
                 /\ idx' = 1
                 /\ UNCHANGED pageObjs
            ELSE With(parsePage(fs, bundles, pageObjs[pages[idx][2]], pages[idx][1]),
                      LAMBDA r :
                      /\ pageObjs' = [pageObjs EXCEPT ![pages[idx][2]] = r.pg]
                      /\ IF r.exc # None THEN Crash(r.exc, r.out) /\ idx' = idx
                         ELSE /\ pc' = pc /\ idx' = idx + 1
                              /\ console' = console \o r.out))
    /\ trace' = <<>>
    /\ UNCHANGED <<fs, bundles, mainBundle, unresolved_labels, written, call>>

\* One iteration of initialParse's loop; summaryTable once the loop is over.
ParseStep ==
    /\ pc = "parse"
    /\ With(pagesRecursively(bundles, mainBundle), LAMBDA pages :
            IF idx > Len(pages)
            THEN /\ IF summaryAssertion(bundles, pageObjs, mainBundle)
                    THEN pc' = "crossref" /\ console' = console
                    ELSE Crash("AssertionError", <<>>)
                 /\ idx' = 1
                 /\ UNCHANGED pageObjs
            ELSE With(parsePage(fs, bundles, pageObjs[pages[idx][2]], pages[idx][1]),
                      LAMBDA r :
                      /\ pageObjs' = [pageObjs EXCEPT ![pages[idx][2]] = r.pg]
                      /\ IF r.exc # None THEN Crash(r.exc, r.out) /\ idx' = idx
                         ELSE /\ pc' = pc /\ idx' = idx + 1
                              /\ console' = console \o r.out))
    /\ trace' = <<>>
    /\ UNCHANGED <<fs, bundles, mainBundle, unresolved_labels, written, call>>

\* The lines crossref_pages prints after its loop.
unresolvedReport(unres) ==
    IF Len(unres) = 0 THEN <<>>
    ELSE LET keys == sorted(Range(unres)) IN
         <<"error: there were unresolved labels">>
         \o [i \in DOMAIN keys |-> "  @" \o keys[i]]

\* One iteration of crossref_pages's loop; the report once the loop is over.
CrossrefStep ==
    /\ pc = "crossref"
    /\ With(pagesRecursively(bundles, mainBundle), LAMBDA pages :
            IF idx > Len(pages)
            THEN /\ pc' = "render" /\ idx' = 1
                 /\ console' = console \o unresolvedReport(unresolved_labels)
                 /\ trace' = <<>>
                 /\ UNCHANGED <<pageObjs, unresolved_labels>>
            ELSE With(crossrefPage(bundles, pageObjs, pages, pages[idx][1], pages[idx][2],
                                   [unres |-> unresolved_labels, out |-> <<>>,
                                    trace |-> <<>>, exc |-> None]),
                      LAMBDA r :
                      /\ pageObjs' = [pageObjs EXCEPT ![pages[idx][2]] = r.pg]
                      /\ unresolved_labels' = r.st.unres
                      /\ trace' = r.st.trace
                      /\ IF r.st.exc # None THEN Crash(r.st.exc, r.st.out) /\ idx' = idx
                         ELSE /\ pc' = pc /\ idx' = idx + 1
                              /\ console' = console \o r.st.out))
    /\ UNCHANGED <<fs, bundles, mainBundle, written, call>>

\* One iteration of generate_html's loop: the page is written, its template
\* calling ref() with the labels it chooses.
RenderStep ==
    /\ pc = "render"
    /\ With(pagesRecursively(bundles, mainBundle), LAMBDA pages :
            IF idx > Len(pages)
            THEN /\ pc' = "copy" /\ idx' = 1
                 /\ console' = Append(console, "Copying static files")
                 /\ trace' = <<>>
                 /\ UNCHANGED <<unresolved_labels, written>>
            ELSE LET pid == pages[idx][2]
                     pg == pageObjs[pid]
                     vars3 == <<relpath(bundles, pg, "/static"),
                                relpath(bundles, pg, pg.local_static),
                                relpath(bundles, pg, "/")>>
                 IN With(output_path(bundles, pg), LAMBDA path :
                    IF path.exc # None
                    THEN /\ Crash(path.exc, <<>>) /\ idx' = idx /\ trace' = <<>>
                         /\ UNCHANGED <<unresolved_labels, written>>
                    ELSE /\ written' = Append(written,
                                              [op |-> "write", src |-> pages[idx][1],
                                               dst |-> path.value])
                         /\ IF \E k \in 1..3 : vars3[k].exc # None
                            THEN /\ Crash("Exception", <<>>) /\ idx' = idx
                                 /\ trace' = <<>>
                                 /\ UNCHANGED unresolved_labels
                            ELSE \E labels \in RefCallSeqs :
                                 With(refCalls(bundles, pageObjs, dictValues(pages), pid,
                                               labels, 1,
                                               [unres |-> unresolved_labels, out |-> <<>>,
                                                trace |-> <<>>, exc |-> None]),
                                      LAMBDA st :
                                      /\ unresolved_labels' = st.unres
                                      /\ trace' = st.trace
                                      /\ IF st.exc # None
                                         THEN Crash(st.exc, st.out) /\ idx' = idx
                                         ELSE /\ pc' = pc /\ idx' = idx + 1
                                              /\ console' = console \o st.out)))
    /\ UNCHANGED <<fs, bundles, pageObjs, mainBundle, call>>

\* The copies of the static folders: <<src, dst>> for every static folder of
\* every bundle, in order; dst is None where os.path.join raises TypeError.
RECURSIVE staticCopies(_, _, _)
staticCopies(bs, order, i) ==
    IF i > Len(order) THEN <<>>
    ELSE LET b == order[i]
             statics == bs[b]._statics
         IN With(config(bs, b, "outputs.folder", NoneNode), LAMBDA folder :
                 [k \in DOMAIN statics |->
                    [op |-> "copytree",
                     src |-> pathJoin3(bs[b]._dir, statics[k], "_static"),
                     dst |-> IF folder.exc # None \/ folder.value.t # "str" THEN None
                             ELSE pathJoin(pathJoin3(folder.value.v, "static", bs[b]._dir),
                                           statics[k])]])
            \o staticCopies(bs, order, i + 1)

\* The copies done before the first one that raises.
RECURSIVE copiesDone(_, _)
copiesDone(copies, i) ==
    IF i > Len(copies) \/ copies[i].dst = None THEN <<>>
    ELSE <<copies[i]>> \o copiesDone(copies, i + 1)

\* The end of main(): the static folders are copied, then the raw files.
CopyStep ==
    /\ pc = "copy"
    /\ With(staticCopies(bundles, iterBundles(bundles, mainBundle), 1), LAMBDA copies :
       With(copiesDone(copies, 1), LAMBDA done :
       With(config(bundles, mainBundle, "inputs.files", NoneNode), LAMBDA files :
       With(config(bundles, mainBundle, "outputs.folder", NoneNode), LAMBDA folder :
       With(IF files.exc # None \/ files.value = NoneNode
            THEN [exc |-> files.exc, value |-> <<>>]
            ELSE filesystemSearch(fs, ".", files.value, <<>>), LAMBDA raw :
            IF Len(done) < Len(copies)
            THEN written' = written \o done /\ Crash("TypeError", <<>>)
            ELSE IF raw.exc # None
            THEN written' = written \o done /\ Crash(raw.exc, <<"Copying raw files">>)
            ELSE IF Len(raw.value) > 0 /\ (folder.exc # None \/ folder.value.t # "str")
            THEN written' = written \o done /\ Crash("TypeError", <<"Copying raw files">>)
            ELSE /\ written' = written \o done
                               \o [k \in DOMAIN raw.value |->
                                     [op |-> "copytree", src |-> raw.value[k],
                                      dst |-> folder.value.v]]
                 /\ pc' = "done"
                 /\ console' = console)))))
    /\ trace' = <<>>
    /\ UNCHANGED <<fs, bundles, pageObjs, mainBundle, idx, unresolved_labels, call>>

Next == LoadMain \/ LoadPagesStep \/ ParseStep \/ CrossrefStep \/ RenderStep \/ CopyStep

Spec == Init /\ [][Next]_vars

-----------------------------------------------------------------------------
(* The configuration harness: a chain of three bundles ".", "sub" and      *)
(* "sub/deep" whose stdoc.conf files are drawn from ConfVariants, loaded by *)
(* loadBundle, then queried with Bundle.config.                             *)

\* The number of shapes ConfVariant gives the key x of a stdoc.conf.
NConfVariants == 7

\* The entries of a stdoc.conf besides inputs.bundles; `o` marks the values
\* with the directory that owns them.
ConfVariant(n, o) ==
    CASE n = 1 -> <<>>
      [] n = 2 -> <<<<"x", Map(<<<<"y", Str("y@" \o o)>>>>)>>>>
      [] n = 3 -> <<<<"x", Map(<<<<"z", Str("z@" \o o)>>>>)>>>>
      [] n = 4 -> <<<<"x", Map(<<<<"y", Map(<<<<"z", Str("yz@" \o o)>>>>)>>>>)>>>>
      [] n = 5 -> <<<<"x", Num(5)>>>>
      [] n = 6 -> <<<<"x", Str("xy")>>>>
      [] OTHER -> <<<<"x", NoneNode>>>>

\* inputs: {bundles: [...]}
InputsBundles(subdirs) ==
    <<"inputs", Map(<<<<"bundles", List([i \in DOMAIN subdirs |-> Str(subdirs[i])])>>>>)>>

ConfigWorld(v1, v2, v3) ==
    [conf |-> << <<".", Map(ConfVariant(v1, ".") \o <<InputsBundles(<<"sub">>)>>)>>,
                 <<"sub", Map(ConfVariant(v2, "sub") \o <<InputsBundles(<<"sub/deep">>)>>)>>,
                 <<"sub/deep", Map(ConfVariant(v3, "sub/deep"))>> >>,
     root |-> ".",
     sources |-> <<>>,
     staticDirs |-> {},
     refs |-> {}]

\* The key-paths and defaults the harness queries.
Queries == {"", "x", "x.y", "x.z", "x.y.z", "y", "inputs.bundles"}
Defaults == {NoneNode, Str("default")}

InitConfig ==
    /\ fs \in {ConfigWorld(v1, v2, v3) : v1 \in 1..NConfVariants,
                                         v2 \in 1..NConfVariants,
                                         v3 \in 1..NConfVariants}
    /\ pc = "cfg_start"
    /\ bundles = <<>>
    /\ pageObjs = <<>>
    /\ mainBundle = 0
    /\ idx = 0
    /\ unresolved_labels = <<>>
    /\ console = <<>>
    /\ trace = <<>>
    /\ written = <<>>
    /\ call = NoCall

\* mainBundle = loadBundle(root, recursive=True)
CfgLoad ==
    /\ pc = "cfg_start"
    /\ LET r == loadBundle(fs, [bs |-> <<>>, out |-> <<>>], fs.root, TRUE) IN
       /\ bundles' = r.bs
       /\ mainBundle' = r.b
       /\ console' = r.out
    /\ pc' = "cfg_loaded"
    /\ UNCHANGED <<fs, pageObjs, idx, unresolved_labels, trace, written, call>>

\* b.config(query, default) for a loaded bundle b.
CfgQuery ==
    /\ pc = "cfg_loaded"
    /\ \E b \in DOMAIN bundles, query \in Queries, default \in Defaults :
          call' = [b |-> b, query |-> query, default |-> default,
                   result |-> config(bundles, b, query, default)]
    /\ pc' = "cfg_called"
    /\ UNCHANGED <<fs, bundles, pageObjs, mainBundle, idx, unresolved_labels,
                   console, trace, written>>

NextConfig == CfgLoad \/ CfgQuery

SpecConfig == InitConfig /\ [][NextConfig]_vars

-----------------------------------------------------------------------------
(* The sites of the discovery claims: main() run on the folder rootDir,     *)
(* whose stdoc.conf declares the sub-bundles sub and other.  The folder sub *)
(* has a stdoc.conf or none, and its stdoc.conf declares the nested         *)
(* sub-bundle sub/deep or not.  The source files have names with and        *)
(* without a language suffix, and metadata with and without a URL override. *)

\* The path of p, a path from the folder rootDir, from the working directory.
In(rootDir, p) == IF rootDir = "." THEN p ELSE pathJoin(rootDir, p)

\* A source file with the given metadata and one link to a local static file.
Page(meta) == [meta |-> meta, tree |-> <<A("=logo.png", "logo")>>, fragments |-> <<>>]

\* The metadata line `url: V`.
UrlMeta(V) == <<<<"url", <<V>>>>>>

\* languages: the table of n language codes.
LanguageTable(n) ==
    CASE n = 0 -> <<>>
      [] n = 1 -> << <<"languages", Map(<< <<"fr", Str("Francais")>> >>)>> >>
      [] OTHER -> << <<"languages", Map(<< <<"en", Str("English")>>,
                                           <<"fr", Str("Francais")>> >>)>> >>

SiteWorld(rootDir, subLoads, deep, langSuffix, nlang, sfx) ==
    [conf |->
       << <<rootDir,
            Map(<< <<"inputs",
                     Map(<< <<"pages", Map(<< <<"match_files", Str("*.md")>> >>)>>,
                            <<"bundles", List(<<Str(In(rootDir, "sub")),
                                                Str(In(rootDir, "other"))>>)>> >>
                         \o (IF langSuffix THEN << <<"lang_suffix", Bool(TRUE)>> >>
                             ELSE <<>>))>> >>
                \o LanguageTable(nlang)
                \o (IF sfx THEN << <<"urls", Map(<< <<"html_suffix", Bool(TRUE)>> >>)>> >>
                    ELSE <<>>))>> >>
       \o (IF subLoads
           THEN << <<In(rootDir, "sub"),
                     Map(IF deep
                         THEN << <<"inputs",
                                   Map(<< <<"bundles",
                                            List(<<Str(In(rootDir, "sub/deep"))>>)>> >>)>> >>
                         ELSE <<>>)>> >>
           ELSE <<>>)
       \o << <<In(rootDir, "sub/deep"), Map(<<>>)>>,
             <<In(rootDir, "other"),
               Map(<< <<"language", Str("de")>>,
                      <<"languages", Map(<< <<"de", Str("Deutsch")>> >>)>> >>)>> >>,
     root |-> rootDir,
     sources |->
       << <<In(rootDir, "guide.md"), Page(<<<<"title", <<"Guide">>>>,
                                            <<"label", <<"@guide">>>>>>)>>,
          <<In(rootDir, "guide-fr.md"), Page(<<>>)>>,
          <<In(rootDir, "guide-en.md"), Page(<<>>)>>,
          <<In(rootDir, "home.md"), Page(UrlMeta("/"))>>,
          <<In(rootDir, "o1.md"), Page(UrlMeta("foo"))>>,
          <<In(rootDir, "o2.md"), Page(UrlMeta("/foo"))>>,
          <<In(rootDir, "o3.md"), Page(UrlMeta("foo.html"))>>,
          <<In(rootDir, "o4.md"), Page(UrlMeta("/foo.html"))>>,
          <<In(rootDir, "z/-fr.md"), Page(<<>>)>>,
          <<In(rootDir, "sub/x.md"), Page(<<>>)>>,
          <<In(rootDir, "sub/deep/y.md"), Page(<<>>)>>,
          <<In(rootDir, "other/z.md"), Page(<<>>)>>,
          <<In(rootDir, "de/other/z.md"), Page(<<>>)>> >>,
     staticDirs |-> {},
     refs |-> {}]

InitSite ==
    /\ fs \in {SiteWorld(rootDir, subLoads, deep, langSuffix, nlang, sfx) :
                  rootDir \in {".", "docs"}, subLoads \in BOOLEAN, deep \in BOOLEAN,
                  langSuffix \in BOOLEAN, nlang \in 0..2, sfx \in BOOLEAN}
    /\ pc = "start"
    /\ bundles = <<>>
    /\ pageObjs = <<>>
    /\ mainBundle = 0
    /\ idx = 0
    /\ unresolved_labels = <<>>
    /\ console = <<>>
    /\ trace = <<>>
    /\ written = <<>>
    /\ call = NoCall

SpecSite == InitSite /\ [][Next]_vars

-----------------------------------------------------------------------------
(* The sites of the metadata claims: main() run on a folder with the page   *)
(* page.md, whose metadata block holds a `label` line and, in any order,    *)
(* `url` and `lang` lines or not, and the page plain.md that links to it.   *)

\* The lines of the metadata block, by key.
MetaLines ==
    << <<"label", <<"@foo">>>>, <<"url", <<"over">>>>, <<"lang", <<"fr">>>> >>

\* The metadata blocks: the orders of the lines of every choice of lines that
\* has the `label` line.
MetaBlocks ==
    {[i \in DOMAIN q |-> MetaLines[q[i]]] :
        q \in {r \in UNION {[1..n -> DOMAIN MetaLines] : n \in DOMAIN MetaLines} :
                  /\ \A i, j \in DOMAIN r : i # j => r[i] # r[j]
                  /\ \E i \in DOMAIN r : MetaLines[r[i]][1] = "label"}}

MetaWorld(meta, nlang, sfx, titled) ==
    [conf |->
       << <<".", Map(<< <<"inputs", Map(<< <<"pages",
                                            Map(<< <<"match_files", Str("*.md")>> >>)>> >>)>> >>
                     \o LanguageTable(nlang)
                     \o (IF sfx THEN << <<"urls", Map(<< <<"html_suffix", Bool(TRUE)>> >>)>> >>
                         ELSE <<>>))>> >>,
     root |-> ".",
     sources |->
       << <<"page.md", [meta |-> meta \o (IF titled THEN <<<<"title", <<"Page">>>>>> ELSE <<>>),
                        tree |-> <<A("=logo.png", "logo")>>, fragments |-> <<>>]>>,
          <<"plain.md", [meta |-> <<>>, tree |-> <<A("@foo", "@foo")>>,
                         fragments |-> <<>>]>> >>,
     staticDirs |-> {},
     refs |-> {}]

InitMeta ==
    /\ fs \in {MetaWorld(meta, nlang, sfx, titled) :
                  meta \in MetaBlocks, nlang \in {0, 2}, sfx \in BOOLEAN,
                  titled \in BOOLEAN}
    /\ pc = "start"
    /\ bundles = <<>>
    /\ pageObjs = <<>>
    /\ mainBundle = 0
    /\ idx = 0
    /\ unresolved_labels = <<>>
    /\ console = <<>>
    /\ trace = <<>>
    /\ written = <<>>
    /\ call = NoCall

SpecMeta == InitMeta /\ [][Next]_vars

-----------------------------------------------------------------------------
(* The path harness: two Url objects, target and base, drawn from the valid *)
(* paths of at most MaxSegments segments, and the call target % base.       *)

\* The segments of the harness's paths; the empty one gives "//".
PathSegments == {"a", "b.html", ""}
MaxSegments == 3

\* The strings Url() accepts among "/" and "/s1/../sn".
ValidPaths ==
    {p \in {"/" \o joinWith("/", q) :
               q \in UNION {[1..n -> PathSegments] : n \in 0..MaxSegments}} :
        Url(p).exc = None}

\* An input tree without files.
EmptyWorld ==
    [conf |-> <<>>, root |-> ".", sources |-> <<>>, staticDirs |-> {}, refs |-> {}]

InitPaths ==
    /\ fs = EmptyWorld
    /\ pc = "path_start"
    /\ bundles = <<>>
    /\ pageObjs = <<>>
    /\ mainBundle = 0
    /\ idx = 0
    /\ unresolved_labels = <<>>
    /\ console = <<>>
    /\ trace = <<>>
    /\ written = <<>>
    /\ call \in {[target |-> a, base |-> b, result |-> ReturnedStr(None)] :
                    a \in ValidPaths, b \in ValidPaths}

\* Url(target) % Url(base)
PathRelpath ==
    /\ pc = "path_start"
    /\ call' = [call EXCEPT !.result = urlMod(call.target, call.base)]
    /\ pc' = "path_called"
    /\ UNCHANGED <<fs, bundles, pageObjs, mainBundle, idx, unresolved_labels,
                   console, trace, written>>

NextPaths == PathRelpath

SpecPaths == InitPaths /\ [][NextPaths]_vars

-----------------------------------------------------------------------------
(* The label harness: two pages of the bundles "." and "sub" that have      *)
(* registered some labels, and one more call of add_label on one of them.    *)

\* The bare names and the targets of the harness's registrations.
LabelNames == {"foo", "bar"}
LabelTargets == {"/a", "/b"}

\* The label dicts a page of the namespace ns has after at most two
\* registrations.
LabelDicts(ns) ==
    {<<>>}
    \cup {<< <<ns \o ":" \o n, t>> >> : n \in LabelNames, t \in LabelTargets}
    \cup {<< <<ns \o ":" \o n[1], t1>>, <<ns \o ":" \o n[2], t2>> >> :
             n \in {m \in LabelNames \X LabelNames : m[1] # m[2]},
             t1 \in LabelTargets, t2 \in LabelTargets}

\* A parsed page of the namespace ns with the labels d.
LabelledPage(b, id, ns, d) ==
    [PageInfo(b, id, "en") EXCEPT !.label_namespace = ns, !.labels = d]

InitLabels ==
    /\ fs = EmptyWorld
    /\ pc = "label_start"
    /\ bundles = <<>>
    /\ pageObjs \in {<<LabelledPage(1, "p", "", d1), LabelledPage(2, "sub/q", ":sub", d2)>> :
                        d1 \in LabelDicts(""), d2 \in {<<>>, << <<":sub:foo", "/a">> >>}}
    /\ mainBundle = 0
    /\ idx = 0
    /\ unresolved_labels = <<>>
    /\ console = <<>>
    /\ trace = <<>>
    /\ written = <<>>
    /\ call \in {[page |-> 1, name |-> n, target |-> t, before |-> <<>>] :
                    n \in LabelNames, t \in LabelTargets}

\* p.add_label(name, target) on the page call.page.
LabelAdd ==
    /\ pc = "label_start"
    /\ With(add_label(pageObjs[call.page], call.name, call.target), LAMBDA r :
            /\ pageObjs' = [pageObjs EXCEPT ![call.page].labels = r.labels]
            /\ console' = console \o r.out)
    /\ call' = [call EXCEPT !.before = pageObjs]
    /\ pc' = "label_called"
    /\ UNCHANGED <<fs, bundles, mainBundle, idx, unresolved_labels, trace, written>>

NextLabels == LabelAdd

SpecLabels == InitLabels /\ [][NextLabels]_vars

-----------------------------------------------------------------------------
(* The loading harness: loadBundle(argv[1], recursive=True) run call by     *)
(* call on the folders ".", "sub" and "sub/deep", whose stdoc.conf files     *)
(* declare sub-bundles, themselves and their ancestors among them.  The      *)
(* nesting of the calls is the list call.stack of their frames; a call       *)
(* nested as deep as the interpreter allows raises RecursionError, inside    *)
(* Bundle() where loadBundle catches it, or outside where it does not.       *)

\* The interpreter's recursion limit, counted in nested calls of loadBundle.
RecursionLimit == 4

\* A stdoc.conf that declares the sub-bundles subdirs.
BundlesConf(subdirs) ==
    IF subdirs = <<>> THEN Map(<<>>)
    ELSE Map(<< <<"inputs",
                  Map(<< <<"bundles",
                           List([i \in DOMAIN subdirs |-> Str(subdirs[i])])>> >>)>> >>)

LoadWorld(rootSubs, subSubs, deepSubs, subLoads) ==
    [conf |-> << <<".", BundlesConf(rootSubs)>> >>
              \o (IF subLoads THEN << <<"sub", BundlesConf(subSubs)>> >> ELSE <<>>)
              \o << <<"sub/deep", BundlesConf(deepSubs)>> >>,
     root |-> ".",
     sources |-> <<>>,
     staticDirs |-> {},
     refs |-> {}]

InitLoad ==
    /\ fs \in {LoadWorld(rootSubs, subSubs, deepSubs, subLoads) :
                  rootSubs \in {<<>>, <<"sub">>, <<"sub", "sub/deep">>, <<".">>,
                                <<"sub", ".">>},
                  subSubs \in {<<>>, <<"sub/deep">>, <<"sub">>, <<".">>},
                  deepSubs \in {<<>>, <<"sub">>, <<".">>},
                  subLoads \in BOOLEAN}
    /\ pc = "load_call"
    /\ bundles = <<>>
    /\ pageObjs = <<>>
    /\ mainBundle = 0
    /\ idx = 0
    /\ unresolved_labels = <<>>
    /\ console = <<>>
    /\ trace = <<>>
    /\ written = <<>>
    /\ call = [stack |-> <<>>, arg |-> fs.root, ret |-> 0]

\* The `except` branch of loadBundle: the diagnostic, and None returned.
LoadFailed ==
    /\ console' = Append(console, "error: " \o call.arg \o ": cannot load bundle (skipping)")
    /\ call' = [call EXCEPT !.ret = 0]
    /\ pc' = "load_return"
    /\ UNCHANGED bundles

\* loadBundle(call.arg, True) up to its loop: Bundle() raises and None is
\* returned, or the bundle is made and the loop over its inputs.bundles is
\* entered.  At the recursion limit RecursionError is raised, inside Bundle()
\* or past it.
LoadCall ==
    /\ pc = "load_call"
    /\ LET made == Bundle(fs, call.arg)
           bs1 == Append(bundles, made.value)
           subdirs == iterate(config(bs1, Len(bs1), "inputs.bundles", List(<<>>)).value)
       IN \/ /\ Len(call.stack) >= RecursionLimit
             /\ LoadFailed
          \/ /\ Len(call.stack) >= RecursionLimit
             /\ Crash("RecursionError", <<>>)
             /\ UNCHANGED <<bundles, call>>
          \/ /\ Len(call.stack) < RecursionLimit
             /\ made.exc # None
             /\ LoadFailed
          \/ /\ Len(call.stack) < RecursionLimit
             /\ made.exc = None
             /\ bundles' = bs1
             /\ call' = [call EXCEPT !.stack =
                            Append(@, [b |-> Len(bs1), subdirs |-> subdirs, i |-> 1])]
             /\ pc' = "load_loop"
             /\ console' = console
    /\ UNCHANGED <<fs, pageObjs, mainBundle, idx, unresolved_labels, trace, written>>

\* The head of the loop of the innermost call: the next declared sub-bundle
\* is loaded, or the loop is over and the bundle is returned.
LoadLoop ==
    /\ pc = "load_loop"
    /\ \E top \in {call.stack[Len(call.stack)]} :
          IF top.i > Len(top.subdirs)
          THEN /\ call' = [call EXCEPT !.stack = SubSeq(@, 1, Len(@) - 1), !.ret = top.b]
               /\ pc' = "load_return"
          ELSE /\ call' = [call EXCEPT !.arg = top.subdirs[top.i]]
               /\ pc' = "load_call"
    /\ UNCHANGED <<fs, bundles, pageObjs, mainBundle, idx, unresolved_labels,
                   console, trace, written>>

\* The return of a call: to main(), or to the loop of the calling
\* loadBundle, which registers the sub-bundle if there is one.
LoadReturn ==
    /\ pc = "load_return"
    /\ IF call.stack = <<>>
       THEN /\ mainBundle' = call.ret
            /\ pc' = "load_done"
            /\ UNCHANGED <<bundles, call>>
       ELSE \E top \in {call.stack[Len(call.stack)]} :
               /\ bundles' = IF call.ret # 0
                             THEN registerSubdir(bundles, top.b, top.subdirs[top.i], call.ret)
                             ELSE bundles
               /\ call' = [call EXCEPT !.stack[Len(call.stack)].i = top.i + 1]
               /\ pc' = "load_loop"
               /\ UNCHANGED mainBundle
    /\ UNCHANGED <<fs, pageObjs, idx, unresolved_labels, console, trace, written>>

NextLoad == LoadCall \/ LoadLoop \/ LoadReturn

\* A step of a running call; each of them changes pc.
LoadAdvance ==
    /\ pc \in {"load_call", "load_loop", "load_return"}
    /\ pc' \in {"load_call", "load_loop", "load_return", "load_done", "crashed"}

\* The interpreter goes on with a call as long as it is running.
SpecLoad == InitLoad /\ [][NextLoad]_vars /\ WF_pc(LoadAdvance)

-----------------------------------------------------------------------------
(* C1 *)

\* Whether the mapping `node` defines the key-path fields[i..], and its value.
RECURSIVE definesPath(_, _, _)
definesPath(node, fields, i) ==
    IF i > Len(fields) THEN TRUE
    ELSE /\ node.t = "map"
         /\ dictHas(node.v, fields[i])
         /\ definesPath(dictGet(node.v, fields[i]), fields, i + 1)

RECURSIVE valueAt(_, _, _)
valueAt(node, fields, i) ==
    IF i > Len(fields) THEN node
    ELSE valueAt(dictGet(node.v, fields[i]), fields, i + 1)

queryFields(query) == IF query = "" THEN <<>> ELSE split(query, ".")

\* The value the nearest bundle of b's ancestor chain gives the key-path, or
\* the default when no bundle of the chain defines it.
nearestValue(bs, b, query, default) ==
    LET chain == iterParents(bs, b)
        hits == {k \in DOMAIN chain :
                    definesPath(bs[chain[k]]._config, queryFields(query), 1)}
    IN IF hits = {} THEN default
       ELSE LET k == CHOOSE h \in hits : \A g \in hits : h <= g
            IN valueAt(bs[chain[k]]._config, queryFields(query), 1)

\* Whether some bundle of b's ancestor chain, up to and including the one
\* that defines the key-path, gives a proper prefix of it a value that is no
\* mapping.
RECURSIVE scalarPrefix(_, _, _)
scalarPrefix(node, fields, i) ==
    /\ i <= Len(fields)
    /\ \/ node.t # "map"
       \/ /\ dictHas(node.v, fields[i])
          /\ scalarPrefix(dictGet(node.v, fields[i]), fields, i + 1)

\* C1: Bundle.config(path, default) returns the value of the nearest bundle
\* of the ancestor chain that defines the full key-path, and the default when
\* none does, for every key-path (also when a nearer bundle defines only a
\* proper prefix of it).
C1_ConfigNearestAncestor ==
    call.b # 0 =>
        call.result = Returned(nearestValue(bundles, call.b, call.query, call.default))

\* What holds of the code: the same, for the chains in which every value a
\* bundle gives to a proper prefix of the key-path is a mapping.
C1_ConfigNearestAncestorOfMappings ==
    (call.b # 0 /\ \A k \in Range(iterParents(bundles, call.b)) :
                      ~scalarPrefix(bundles[k]._config, queryFields(call.query), 1)) =>
        call.result = Returned(nearestValue(bundles, call.b, call.query, call.default))

\* A child with x: {z: ..} asked for x.y, which only an ancestor defines.
C1_Witness ==
    /\ call.b = 3 /\ call.query = "x.y"
    /\ ~definesPath(bundles[3]._config, <<"x", "y">>, 1)
    /\ definesPath(bundles[3]._config, <<"x">>, 1)
    /\ definesPath(bundles[1]._config, <<"x", "y">>, 1)
    /\ call.result.exc = None

-----------------------------------------------------------------------------
(* The page set of crossref_pages and generate_html, as the claims below    *)
(* read it from the state.                                                   *)

\* Every bundle has run loadPages.
PagesLoaded == mainBundle # 0 /\ \A b \in DOMAIN bundles : bundles[b]._pages # None

\* pages = mainBundle.pagesRecursively(), and pages.values().
PageSet == IF PagesLoaded THEN pagesRecursively(bundles, mainBundle) ELSE <<>>
Order == dictValues(PageSet)

\* Whether page p is a candidate of a resolution under the language lang.
Compatible(p, lang) ==
    ~(pageObjs[p].lang # None /\ lang # None /\ pageObjs[p].lang # lang)

\* The candidate pages that define the key, in the order of the page set.
Definers(key, lang) ==
    SelectSeq(Order, LAMBDA p : Compatible(p, lang) /\ dictHas(pageObjs[p].labels, key))

\* The pages that define a label of the given name, in whatever namespace.
DefinersOfName(name) ==
    {p \in Range(Order) :
        \E i \in DOMAIN pageObjs[p].labels :
            endswith(pageObjs[p].labels[i][1], ":" \o name)}

\* The target URL page p registers for the label of the given name.
TargetOfName(p, name) ==
    LET i == CHOOSE j \in DOMAIN pageObjs[p].labels :
                 endswith(pageObjs[p].labels[j][1], ":" \o name)
    IN pageObjs[p].labels[i][2]

-----------------------------------------------------------------------------
(* C2 *)

\* C2: in a page set in which exactly one page defines label foo, the
\* reference @foo issued from any other page resolves to that page's target
\* URL and title.
C2_UniqueLabelResolvesFromAnyPage ==
    \A k \in DOMAIN trace :
        LET r == trace[k]
            D == DefinersOfName(r.label)
        IN (~startswith(r.label, ":") /\ Cardinality(D) = 1 /\ r.source \notin D) =>
               \A d \in D : /\ r.target = TargetOfName(d, r.label)
                            /\ r.title = pageObjs[d].title

\* C2, as the code has it: the same for a reference issued from another page
\* of the defining page's label namespace and language.
C2_UniqueLabelResolvesInNamespaceAndLanguage ==
    \A k \in DOMAIN trace :
        LET r == trace[k]
            D == DefinersOfName(r.label)
        IN (~startswith(r.label, ":") /\ Cardinality(D) = 1 /\ r.source \notin D) =>
               \A d \in D :
                   (/\ pageObjs[d].label_namespace = pageObjs[r.source].label_namespace
                    /\ pageObjs[d].lang = pageObjs[r.source].lang)
                   => /\ r.target = TargetOfName(d, r.label)
                      /\ r.target # None
                      /\ r.title = pageObjs[d].title

\* A page resolves @foo, which one other page of its namespace and language
\* defines.
C2_Witness ==
    \E k \in DOMAIN trace :
        /\ trace[k].label = "foo"
        /\ Cardinality(DefinersOfName("foo")) = 1
        /\ \E d \in DefinersOfName("foo") :
              /\ d # trace[k].source
              /\ pageObjs[d].label_namespace = pageObjs[trace[k].source].label_namespace
              /\ pageObjs[d].lang = pageObjs[trace[k].source].lang
              /\ trace[k].target = TargetOfName(d, "foo")

-----------------------------------------------------------------------------
(* C3 *)

\* C3: resolving a key that no candidate page defines returns None, and
\* however often and from however many pages it is resolved, the key is in
\* unresolved_labels exactly once.
C3_UnresolvedKeyOnceInSet ==
    /\ \A k \in DOMAIN trace :
          Definers(trace[k].key, trace[k].lang) = <<>> =>
              /\ trace[k].target = None
              /\ trace[k].title = ""
              /\ Cardinality({i \in DOMAIN unresolved_labels :
                                 unresolved_labels[i] = trace[k].key}) = 1
    /\ \A i, j \in DOMAIN unresolved_labels :
          i # j => unresolved_labels[i] # unresolved_labels[j]

\* The second page of the root bundle has just resolved @nope, which the
\* first page resolved before it.
C3_Witness ==
    /\ pc = "crossref" /\ idx = 3
    /\ pageObjs[Order[1]].label_namespace = pageObjs[Order[2]].label_namespace
    /\ \E e \in DOMAIN pageObjs[Order[1]].tree : pageObjs[Order[1]].tree[e].class = "broken"
    /\ \E k \in DOMAIN trace :
          /\ trace[k].source = Order[2] /\ trace[k].key = ":nope"
          /\ trace[k].target = None
    /\ ":nope" \in Range(unresolved_labels)

-----------------------------------------------------------------------------
(* C4 *)

\* C4: when two or more candidate pages define the key, resolve_label prints
\* the ambiguity error and returns the hit of the first defining page in the
\* order of the page set; the same reference resolved again gives the same
\* match.
C4_AmbiguityFirstInOrder ==
    \A k \in DOMAIN trace :
        LET r == trace[k]
            D == Definers(r.key, r.lang)
        IN Len(D) >= 2 =>
               /\ r.target = dictGet(pageObjs[D[1]].labels, r.key)
               /\ r.title = pageObjs[D[1]].title
               /\ ("error: multiple definitions of label @" \o r.key \o " found")
                      \in Range(console)
               /\ \A j \in DOMAIN trace :
                      (/\ trace[j].source = r.source /\ trace[j].label = r.label
                       /\ trace[j].lang = r.lang)
                      => trace[j].target = r.target /\ trace[j].title = r.title

\* A page resolves twice a reference that two candidate pages with different
\* targets define.
C4_Witness ==
    \E k, j \in DOMAIN trace :
        /\ k # j
        /\ trace[j].source = trace[k].source /\ trace[j].label = trace[k].label
        /\ Len(Definers(trace[k].key, trace[k].lang)) >= 2
        /\ dictGet(pageObjs[Definers(trace[k].key, trace[k].lang)[1]].labels, trace[k].key)
             # dictGet(pageObjs[Definers(trace[k].key, trace[k].lang)[2]].labels,
                       trace[k].key)

-----------------------------------------------------------------------------
(* C5 *)

\* C5: every key that failed to resolve during the run, in the patching pass
\* or in a template's ref(), is listed in the unresolved-label report the run
\* printed: at the end of the run no key is in unresolved_labels without
\* its line in the report.
C5_EveryUnresolvedKeyReported ==
    pc = "done" =>
        \A i \in DOMAIN unresolved_labels :
            ("  @" \o unresolved_labels[i]) \in Range(console)

-----------------------------------------------------------------------------
(* C6 *)

\* The labels the source file at path declares in its metadata.
RECURSIVE SourceLabelsOf(_, _)
SourceLabelsOf(meta, i) ==
    IF i > Len(meta) THEN {}
    ELSE (IF meta[i][1] = "label" THEN Range(meta[i][2]) ELSE {})
         \cup SourceLabelsOf(meta, i + 1)
SourceLabels(path) == SourceLabelsOf(dictGet(fs.sources, path).meta, 1)

\* The keys the page read from path registers once it is parsed.
DeclaredKeys(path, pid) ==
    {labelNamespace(bundles, pageObjs[pid].bundle) \o ":" \o sliceFrom(l, 1) :
        l \in SourceLabels(path)}

\* Every source file of the input tree is a page of the page set.
AllDiscovered ==
    PagesLoaded /\ Range(dictKeys(fs.sources)) \subseteq Range(dictKeys(PageSet))

\* Every page of the page set holds its tree and every label it declares.
AllParsed ==
    \A i \in DOMAIN PageSet :
        /\ pageObjs[PageSet[i][2]].tree # <<>>
        /\ \A key \in DeclaredKeys(PageSet[i][1], PageSet[i][2]) :
              dictHas(pageObjs[PageSet[i][2]].labels, key)

\* C6: no label reference is resolved before every page of every bundle is
\* discovered and parsed with its labels registered; so a reference to a
\* label that a candidate page declares resolves, wherever that page stands
\* in the discovery order.
C6_ResolutionAfterAllPagesParsed ==
    trace # <<>> =>
        /\ AllDiscovered
        /\ AllParsed
        /\ \A k \in DOMAIN trace :
              (\E i \in DOMAIN PageSet :
                  /\ Compatible(PageSet[i][2], trace[k].lang)
                  /\ trace[k].key \in DeclaredKeys(PageSet[i][1], PageSet[i][2]))
              => trace[k].target # None

\* The first page of the page set resolves a reference that only a later
\* page defines.
C6_Witness ==
    /\ pc = "crossref" /\ idx = 2
    /\ \E k \in DOMAIN trace :
          /\ trace[k].source = Order[1]
          /\ trace[k].target # None
          /\ ~dictHas(pageObjs[Order[1]].labels, trace[k].key)
          /\ \E i \in DOMAIN PageSet :
                i > 1 /\ trace[k].key \in DeclaredKeys(PageSet[i][1], PageSet[i][2])

-----------------------------------------------------------------------------
(* The patching pass, as the claims below read it from the state.           *)

\* Whether crossref_pages has patched the i-th page of the page set.
Patched(i) ==
    \/ pc = "crossref" /\ i < idx
    \/ pc \in {"render", "copy", "done"}

\* The i-th page of the page set pages: its source path, its page object,
\* its URL, the order of the page set, and its trees, the page's tree then
\* its fragments, each as parsed (old) and as the state holds it (new).
PageView(pages, i) ==
    LET src == dictGet(fs.sources, pages[i][1])
        pg == pageObjs[pages[i][2]]
    IN [path |-> pages[i][1],
        obj |-> pages[i][2],
        url |-> url(bundles, pg).value,
        order |-> dictValues(pages),
        trees |-> <<[old |-> src.tree, new |-> pg.tree]>>
                  \o [f \in DOMAIN src.fragments |->
                         [old |-> src.fragments[f][2], new |-> pg.fragments[f][2]]]]

\* The i-th page of the page set.
PageAt(i) == PageView(PageSet, i)

\* The pages crossref_pages has patched.
PatchedPages ==
    IF pc \in {"crossref", "render", "copy", "done"}
    THEN With(PageSet, LAMBDA pages :
              {PageView(pages, i) : i \in {j \in DOMAIN pages : Patched(j)}})
    ELSE {}

\* The relative path from the URL of page p to the URL target.
RelativeTo(p, target) == _relpath(p.url, target).value

\* The candidate pages that define the label an href "@token" of page p
\* refers to, in the order of the page set.
DefinersOfHref(p, href) ==
    SelectSeq(p.order,
              LAMBDA d : /\ Compatible(d, pageObjs[p.obj].lang)
                         /\ dictHas(pageObjs[d].labels,
                                    qualify(pageObjs[p.obj], sliceFrom(href, 1))))

-----------------------------------------------------------------------------
(* C7 *)

\* C7: the patching pass rewrites an href "=:rest" to the relative path from
\* the page's URL to /static/rest.
C7_GlobalStaticLink ==
    \A p \in PatchedPages :
        \A t \in DOMAIN p.trees :
            \A e \in DOMAIN p.trees[t].old :
                LET old == p.trees[t].old[e]
                    new == p.trees[t].new[e]
                IN (old.tag = "a" /\ startswith(old.href, "=:")) =>
                       new.href = RelativeTo(p, pathJoin("/static",
                                                         sliceFrom(old.href, 2)))

-----------------------------------------------------------------------------
(* C8 *)

\* The source path of page p, from its bundle's directory.
BundleRelativePath(p) ==
    LET dir == bundles[pageObjs[p.obj].bundle]._dir IN
    IF dir = "." THEN p.path ELSE sliceFrom(p.path, Len(dir) + 1)

\* The longest static folder of the bundle of page p that is a prefix of
\* the page's bundle-relative source path; "" when there is none.
LongestStaticPrefix(p) ==
    LET statics == {x \in Range(bundles[pageObjs[p.obj].bundle]._statics) :
                       startswith(BundleRelativePath(p), x)}
    IN IF statics = {} THEN ""
       ELSE CHOOSE x \in statics : \A y \in statics : Len(y) <= Len(x)

\* /static/<bundle dir>/<S>
LocalStaticBase(p) ==
    normpath(pathJoin3("/static", bundles[pageObjs[p.obj].bundle]._dir,
                       LongestStaticPrefix(p)))

\* C8: every page's local-static base is /static/<bundle dir>/<S>, S being
\* the longest static folder of the page's bundle that is a prefix of the
\* page's source path, and an href "=X" is rewritten to the relative path
\* from the page's URL to <base>/X; for the pages of the root bundle and of
\* the sub-bundles alike.
C8_LocalStaticBase ==
    \A p \in PatchedPages :
        /\ pageObjs[p.obj].local_static = LocalStaticBase(p)
        /\ \A t \in DOMAIN p.trees :
              \A e \in DOMAIN p.trees[t].old :
                  LET old == p.trees[t].old[e]
                      new == p.trees[t].new[e]
                  IN (/\ old.tag = "a" /\ startswith(old.href, "=")
                      /\ ~startswith(old.href, "=:")) =>
                         new.href = RelativeTo(p, pathJoin(LocalStaticBase(p),
                                                           sliceFrom(old.href, 1)))

-----------------------------------------------------------------------------
(* C9 *)

\* Whether an element as parsed is a hyperlink "@token" of page p whose
\* label no candidate page defines.
UnresolvedLink(p, old) ==
    old.tag = "a" /\ startswith(old.href, "@") /\ DefinersOfHref(p, old.href) = <<>>

\* Every hyperlink of page p, tree and fragments, has an href.
EveryLinkHasHref(p) ==
    \A t \in DOMAIN p.trees :
        \A e \in DOMAIN p.trees[t].old :
            p.trees[t].old[e].tag = "a" => p.trees[t].old[e].href # None

\* Page p has a hyperlink "@token" whose label no candidate page defines.
HasUnresolvedLink(p) ==
    \E t \in DOMAIN p.trees :
        \E e \in DOMAIN p.trees[t].old : UnresolvedLink(p, p.trees[t].old[e])

\* In a patched page, an unresolved "@token" link has lost its href and has
\* the class "broken", and the links after it are patched too.
BrokenLinksMarked ==
    \A p \in PatchedPages :
        \A t \in DOMAIN p.trees :
            \A e \in DOMAIN p.trees[t].old :
                UnresolvedLink(p, p.trees[t].old[e]) =>
                    /\ p.trees[t].new[e].href = None
                    /\ p.trees[t].new[e].class = "broken"
                    /\ p.trees[t].new[e].text = p.trees[t].old[e].text
                    /\ \A e2 \in DOMAIN p.trees[t].old :
                          (e2 > e /\ startswith(p.trees[t].old[e2].href, "="))
                          => p.trees[t].new[e2].href # p.trees[t].old[e2].href

\* The pass goes on to the next page after a page with unresolved links
\* (whose hyperlinks all have an href).
PassContinues ==
    (/\ pc = "crossref" /\ idx \in DOMAIN PageSet
     /\ \E p \in {PageAt(idx)} : EveryLinkHasHref(p) /\ HasUnresolvedLink(p))
    => (pc' = "crossref" /\ idx' = idx + 1)

\* C9: a hyperlink "@token" whose label does not resolve has its href removed
\* and its class set to "broken", and the patching pass continues with the
\* remaining elements and pages.
C9_UnresolvedLinkBrokenPassContinues ==
    []BrokenLinksMarked /\ [][PassContinues]_vars

\* The pass has reached its end, and a page it patched on the way holds a
\* broken link followed by a patched one.
C9_Witness ==
    /\ pc = "render"
    /\ \E p \in {PageAt(1)} :
          \E e \in DOMAIN p.trees[1].old :
              /\ UnresolvedLink(p, p.trees[1].old[e])
              /\ p.trees[1].new[e].class = "broken"
              /\ p.trees[1].new[e].href = None
              /\ \E e2 \in DOMAIN p.trees[1].old :
                    /\ e2 > e /\ p.trees[1].old[e2].href = "=d.png"
                    /\ p.trees[1].new[e2].href # "=d.png"

-----------------------------------------------------------------------------
(* C10 *)

\* C10: a hyperlink "@token" that resolves gets as href the relative path
\* from the referencing page's URL to the label's target URL, and gets the
\* defining page's title as text if and only if its text was the literal
\* "@token"; otherwise its text is unchanged.
C10_ResolvedLinkPatched ==
    \A p \in PatchedPages :
        \A t \in DOMAIN p.trees :
            \A e \in DOMAIN p.trees[t].old :
                LET old == p.trees[t].old[e]
                    new == p.trees[t].new[e]
                IN (old.tag = "a" /\ startswith(old.href, "@")) =>
                       \A D \in {DefinersOfHref(p, old.href)} :
                           D # <<>> =>
                               /\ new.href =
                                    RelativeTo(p, dictGet(pageObjs[D[1]].labels,
                                                          qualify(pageObjs[p.obj],
                                                                  sliceFrom(old.href, 1))))
                               /\ new.text = IF old.text = old.href
                                             THEN pageObjs[D[1]].title
                                             ELSE old.text
                               /\ new.class = None

\* A patched page holds two resolved links to one label, the first with the
\* defining page's title as its new text, the second with the text it had.
C10_Witness ==
    \E p \in PatchedPages :
        \E e1, e2 \in DOMAIN p.trees[1].old :
            /\ p.trees[1].old[e1] = A("@foo", "@foo")
            /\ p.trees[1].old[e2] = A("@foo", "see foo")
            /\ DefinersOfHref(p, "@foo") # <<>>
            /\ p.trees[1].new[e1].text = pageObjs[DefinersOfHref(p, "@foo")[1]].title
            /\ p.trees[1].new[e1].text # "@foo"
            /\ p.trees[1].new[e2].text = "see foo"
            /\ p.trees[1].new[e1].href = p.trees[1].new[e2].href
            /\ p.trees[1].new[e1].href \notin {None, "@foo"}

-----------------------------------------------------------------------------
(* C11 *)

\* The URL the prefix rules give the reference url of page p: the path to
\* <local static>/rest for "=rest", to /static/rest for "=:rest", to the
\* label's target for "@label", the reference itself otherwise; None for a
\* label that does not resolve.
RuleUrl(p, ref0) ==
    IF startswith(ref0, "=:")
    THEN RelativeTo(p, pathJoin("/static", sliceFrom(ref0, 2)))
    ELSE IF startswith(ref0, "=")
    THEN RelativeTo(p, pathJoin(pageObjs[p.obj].local_static, sliceFrom(ref0, 1)))
    ELSE IF startswith(ref0, "@")
    THEN IF DefinersOfHref(p, ref0) = <<>> THEN None
         ELSE RelativeTo(p, dictGet(pageObjs[DefinersOfHref(p, ref0)[1]].labels,
                                    qualify(pageObjs[p.obj], sliceFrom(ref0, 1))))
    ELSE ref0

\* C11: in a patched page, every img element has as src a single URL string,
\* the one the prefix rules of the hyperlinks give its reference, and is
\* otherwise as it was parsed.
C11_ImgSrcSingleUrl ==
    \A p \in PatchedPages :
        \A t \in DOMAIN p.trees :
            \A e \in DOMAIN p.trees[t].old :
                LET old == p.trees[t].old[e]
                    new == p.trees[t].new[e]
                IN (old.tag = "img" /\ old.src.t = "str") =>
                       /\ new.src.t = "str"
                       /\ new.src = Str(RuleUrl(p, old.src.v))
                       /\ [new EXCEPT !.src = old.src] = old

-----------------------------------------------------------------------------
(* C12 *)

\* The segments of an absolute path: those of "/" are none.
SegmentsOf(path) == IF path = "/" THEN <<>> ELSE split(sliceFrom(path, 1), "/")

\* The segments left after the segments segs[i..] of a relative path are
\* applied to the stack of segments: ".." drops the last one, "." none, any
\* other segment is added.
RECURSIVE applySegments(_, _, _)
applySegments(stack, segs, i) ==
    IF i > Len(segs) THEN stack
    ELSE applySegments(IF segs[i] = ".."
                       THEN SubSeq(stack, 1, Len(stack) - 1)
                       ELSE IF segs[i] = "." THEN stack
                       ELSE Append(stack, segs[i]),
                       segs, i + 1)

\* The relative path rel resolved textually against base: base without its
\* last segment, then the segments of rel applied.
resolveAgainst(rel, base) ==
    "/" \o joinWith("/", applySegments(SubSeq(SegmentsOf(base), 1,
                                              Len(SegmentsOf(base)) - 1),
                                       split(rel, "/"), 1))

\* C12: for two valid absolute paths target and base, target % base returns
\* a string which, resolved textually against base, is target.
C12_RelpathRoundTrip ==
    pc = "path_called" =>
        /\ call.result.exc = None
        /\ resolveAgainst(call.result.value, call.base) = call.target

-----------------------------------------------------------------------------
(* C13 *)

\* n repetitions of the string s.
RECURSIVE repeat(_, _)
repeat(s, n) == IF n <= 0 THEN "" ELSE s \o repeat(s, n - 1)

\* C13: for two valid absolute paths target and base, target % base is "../"
\* once per directory segment of base (its segments but the last) followed
\* by target without its leading slash, also when target is the root.
C13_RelpathCanonicalForm ==
    pc = "path_called" =>
        call.result = ReturnedStr(repeat("../", Len(SegmentsOf(call.base)) - 1)
                                  \o sliceFrom(call.target, 1))

-----------------------------------------------------------------------------
(* C14 *)

\* The path of a source file from the folder dir.
RelativeToDir(dir, path) == IF dir = "." THEN path ELSE sliceFrom(path, Len(dir) + 1)

\* A path without its extension ".md".
WithoutExtension(path) == sliceDropLast(path, 3)

\* The codes of the language table of bundle b, its default language, and
\* whether it detects language suffixes.
LanguageCodes(b) == Range(iterate(config(bundles, b, "languages", Map(<<>>)).value))
DefaultLanguage(b) == config(bundles, b, "language", Str("en")).value.v
SuffixDetection(b) == truthy(config(bundles, b, "inputs.lang_suffix", Bool(FALSE)).value)

\* The id and the language of the discovered file at path, its path from
\* the folder dir being the one its id derives from.
IdAndLang(b, dir, path) ==
    LET rel == WithoutExtension(RelativeToDir(dir, path))
        codes == {c \in LanguageCodes(b) : endswith(rel, "-" \o c)}
    IN IF SuffixDetection(b) /\ codes # {}
       THEN {<<sliceDropLast(rel, Len(c) + 1), c>> : c \in codes}
       ELSE {<<rel, DefaultLanguage(b)>>}

\* C14: the page of every discovered source file of a bundle has as id the
\* file's path from the bundle's folder without its extension and without
\* the suffix "-<code>" of a declared language code, and as lang that code,
\* when the bundle detects suffixes and the name has one; the path without
\* its extension and the bundle's default language ("en" when there is
\* none) otherwise.
C14_IdAndLangOfDiscoveredFile ==
    \A b \in DOMAIN bundles :
        bundles[b]._pages # None =>
            \A i \in DOMAIN bundles[b]._pages :
                <<pageObjs[bundles[b]._pages[i][2]].id,
                  pageObjs[bundles[b]._pages[i][2]].lang>>
                    \in IdAndLang(b, bundles[b]._dir, bundles[b]._pages[i][1])

-----------------------------------------------------------------------------
(* C15 *)

\* Whether urls.html_suffix is set for bundle b.
HtmlSuffix(b) == truthy(config(bundles, b, "urls.html_suffix", NoneNode).value)

\* C15: the URL of a page without URL override is "/<lang>" (only if the
\* page's bundle declares several languages) followed by "/<id>" and by
\* ".html" (only if urls.html_suffix is set).
C15_DefaultUrl ==
    \A o \in Range(Order) :
        pageObjs[o].url_override = None =>
            url(bundles, pageObjs[o])
              = ReturnedStr((IF Cardinality(LanguageCodes(pageObjs[o].bundle)) >= 2
                             THEN "/" \o pageObjs[o].lang ELSE "")
                            \o "/" \o pageObjs[o].id
                            \o (IF HtmlSuffix(pageObjs[o].bundle) THEN ".html" ELSE ""))

-----------------------------------------------------------------------------
(* C16 *)

\* The value V of the metadata line `url: V` of the source file at path;
\* None when the file has no such line with a single value.
RECURSIVE OverrideIn(_, _)
OverrideIn(meta, i) ==
    IF i > Len(meta) THEN None
    ELSE IF meta[i][1] = "url" /\ Len(meta[i][2]) = 1 THEN meta[i][2][1]
    ELSE OverrideIn(meta, i + 1)
OverrideOf(path) == OverrideIn(dictGet(fs.sources, path).meta, 1)

\* V with one trailing ".html" removed and anchored at the root.
Anchored(V) ==
    LET stem == IF endswith(V, ".html") THEN sliceDropLast(V, 5) ELSE V
    IN IF startswith(stem, "/") THEN stem ELSE "/" \o stem

\* The pages that have their URL override: the page object pg of the source
\* file at path, whose metadata has `url: V`.
Overridden ==
    With(PageSet, LAMBDA pages :
         {[path |-> pages[i][1], V |-> OverrideOf(pages[i][1]), pg |-> pageObjs[pages[i][2]]] :
             i \in {j \in DOMAIN pages : /\ OverrideOf(pages[j][1]) # None
                                         /\ pageObjs[pages[j][2]].url_override # None}})

\* C16: the final URL of a page whose metadata has the single value
\* `url: V` is V without one trailing ".html", anchored at the root, without
\* language prefix, and with ".html" appended exactly when urls.html_suffix
\* is set; so foo, /foo, foo.html and /foo.html give one final URL.
C16_OverrideUrl ==
    \A p \in Overridden :
        url(bundles, p.pg)
          = ReturnedStr(Anchored(p.V)
                        \o (IF HtmlSuffix(p.pg.bundle) THEN ".html" ELSE ""))

\* C16, as the code has it: the same, the suffix appended to the root "/"
\* being "index.html".
C16_OverrideUrlIndexAtRoot ==
    \A p \in Overridden :
        /\ url(bundles, p.pg)
             = ReturnedStr(Anchored(p.V)
                           \o (IF ~HtmlSuffix(p.pg.bundle) THEN ""
                               ELSE IF Anchored(p.V) = "/" THEN "index.html"
                               ELSE ".html"))
        /\ \A q \in Overridden :
              (/\ p.pg.bundle = q.pg.bundle
               /\ {p.V, q.V} \subseteq {"foo", "/foo", "foo.html", "/foo.html"})
              => url(bundles, p.pg) = url(bundles, q.pg)

\* In a site with a language table and urls.html_suffix set, the pages with
\* the overrides foo, /foo, foo.html and /foo.html are parsed and have the
\* URL /foo.html, and the page with the override / has /index.html.
C16_Witness ==
    /\ pc = "crossref"
    /\ {p.V : p \in Overridden} = {"foo", "/foo", "foo.html", "/foo.html", "/"}
    /\ \A p \in Overridden :
          /\ Cardinality(LanguageCodes(p.pg.bundle)) = 2
          /\ url(bundles, p.pg).value
               = IF p.V = "/" THEN "/index.html" ELSE "/foo.html"

-----------------------------------------------------------------------------
(* C17 *)

\* A URL with the ".html" suffix enforced.
EnforcedHtml(u) ==
    IF endswith(u, ".html") THEN u
    ELSE IF endswith(u, "/") THEN u \o "index.html"
    ELSE u \o ".html"

\* The output root of the bundle b: outputs.folder, "_www" by default.
OutputRoot(b) == config(bundles, b, "outputs.folder", Str("_www")).value.v

\* C17: for every discovered page, overridden or not, with
\* urls.html_suffix on or off, output_path() raises no assertion and
\* returns the output root joined with the page's final URL with the
\* ".html" suffix enforced, a path that ends with ".html" exactly once.
C17_OutputPathOfDiscoveredPage ==
    \A o \in Range(Order) :
        \E p \in {pageObjs[o]} :
            With(output_path(bundles, p), LAMBDA r :
                 /\ r.exc = None
                 /\ endswith(r.value, ".html")
                 /\ ~endswith(r.value, ".html.html")
                 /\ With(url(bundles, p), LAMBDA u :
                         /\ u.exc = None
                         /\ r.value = pathJoin(OutputRoot(p.bundle),
                                               sliceFrom(EnforcedHtml(u.value), 1))))

-----------------------------------------------------------------------------
(* C18 *)

\* The sub-bundles the bundle b declares: what loadBundle's loop drew from
\* b.config("inputs.bundles", []) when b had no parent yet.
Declared(b) ==
    Range(iterate(config(<<[bundles[b] EXCEPT !._parent = 0]>>, 1,
                         "inputs.bundles", List(<<>>)).value))

\* Whether the folder d has a stdoc.conf, so that Bundle(d) does not raise.
Loads(d) == confOf(fs, d) # NoneNode

\* The bundles of the tree, as iterBundles() yields them.
Tree == Range(iterBundles(bundles, mainBundle))

\* C18: when a declared sub-bundle fails to load, the parent bundle is
\* still returned, every other declared sub-bundle that loads is registered
\* under its declared name with its parent link set, and the failed one is
\* neither registered nor in the tree iterBundles() yields; its diagnostic
\* is printed.
C18_FailedSubBundleOnly ==
    pc # "start" =>
        /\ mainBundle # 0
        /\ bundles[mainBundle]._dir = fs.root
        /\ \A b \in Tree : \A d \in Declared(b) :
              IF Loads(d)
              THEN /\ dictHas(bundles[b]._subdirs, d)
                   /\ \E sb \in {dictGet(bundles[b]._subdirs, d)} :
                         /\ bundles[sb]._dir = d
                         /\ bundles[sb]._parent = b
                         /\ sb \in Tree
              ELSE /\ ~dictHas(bundles[b]._subdirs, d)
                   /\ \A c \in Tree : bundles[c]._dir # d
                   /\ \E k \in DOMAIN console :
                         console[k] = "error: " \o d \o ": cannot load bundle (skipping)"

\* The main bundle has been loaded; its first declared sub-bundle failed to
\* load and its second one is registered with the main bundle as parent.
C18_Witness ==
    /\ pc = "loadPages"
    /\ mainBundle # 0
    /\ \E d \in Declared(mainBundle) : ~Loads(d)
    /\ \E d \in Declared(mainBundle) :
          /\ Loads(d)
          /\ dictHas(bundles[mainBundle]._subdirs, d)
          /\ bundles[dictGet(bundles[mainBundle]._subdirs, d)]._parent = mainBundle
    /\ Cardinality(Tree) = 2

-----------------------------------------------------------------------------
(* C19 *)

\* Whether the file at path lies under the folder dir.
Under(dir, path) == startswith(normpath(path), normpath(dir) \o "/")

\* The source files of the page set.
DiscoveredFiles == Range(dictKeys(PageSet))

\* C19: when a declared sub-bundle fails to load, then after page discovery
\* on all loaded bundles the page set has no page whose source file lies
\* under the failed sub-bundle's directory.
C19_FailedSubtreeHasNoPage ==
    PagesLoaded =>
        \A b \in Tree : \A d \in Declared(b) :
            ~Loads(d) => \A path \in DiscoveredFiles : ~Under(d, path)

-----------------------------------------------------------------------------
(* C20 *)

\* The source files of the bundle b's own page set, and their ids.
FilesOf(b) == Range(dictKeys(bundles[b]._pages))
IdsOf(b) == {pageObjs[o].id : o \in Range(dictValues(bundles[b]._pages))}

\* The ancestors of the bundle b in the tree.
Ancestors(b) == Range(iterParents(bundles, b)) \ {b}

\* C20: after loadPages() on every bundle of the tree, every discovered
\* source file belongs to exactly one bundle: no file under a registered
\* sub-bundle's directory is in the page set of an ancestor, at any nesting
\* depth and for any root directory name; no id is used by two bundles, and
\* the uniqueness assertion of summaryTable() does not fail.
C20_EveryFileInOneBundle ==
    PagesLoaded =>
        /\ \A b \in Tree : \A a \in Ancestors(b) :
              \A path \in FilesOf(a) : ~Under(bundles[b]._dir, path)
        /\ \A b \in Tree : \A c \in Tree \ {b} :
              /\ FilesOf(b) \cap FilesOf(c) = {}
              /\ IdsOf(b) \cap IdsOf(c) = {}
        /\ summaryAssertion(bundles, pageObjs, mainBundle)

-----------------------------------------------------------------------------
(* C21 *)

\* Whether outputs.folder is configured neither in the bundle b nor in any
\* of its ancestors.
OutputsFolderUnset(b) ==
    config(bundles, b, "outputs.folder", NoneNode) = Returned(NoneNode)

\* The copy main() makes of the k-th static folder of the bundle b when the
\* output root is root.
StaticCopyUnder(root, b, k) ==
    [op |-> "copytree",
     src |-> pathJoin3(bundles[b]._dir, bundles[b]._statics[k], "_static"),
     dst |-> pathJoin(pathJoin3(root, "static", bundles[b]._dir),
                      bundles[b]._statics[k])]

\* C21: when outputs.folder is configured in no bundle, the end of main()
\* copies every static folder under the root "_www", the root output_path()
\* uses for the pages: everything the run has written is under "_www".
C21_DefaultOutputRoot ==
    [][(pc = "copy" /\ \A b \in Tree : OutputsFolderUnset(b)) =>
          /\ pc' = "done"
          /\ \A b \in Tree : \A k \in DOMAIN bundles[b]._statics :
                \E j \in DOMAIN written' : written'[j] = StaticCopyUnder("_www", b, k)
          /\ \A j \in DOMAIN written' : startswith(written'[j].dst, "_www/")]_vars

-----------------------------------------------------------------------------
(* C22 *)

\* The pages whose labels hold the key, of any language.
DefinersOfKey(key) == {p \in Range(Order) : dictHas(pageObjs[p].labels, key)}

\* C22: the patching pass and ref() resolve with the referencing page's
\* language, and a resolution under a language never returns the label of a
\* page of another language: a key that only pages of other languages
\* define stays unresolved.
C22_NoResolutionAcrossLanguages ==
    \A k \in DOMAIN trace :
        \E r \in {trace[k]} :
            /\ r.lang = pageObjs[r.source].lang
            /\ r.lang # None
            /\ r.page # 0 => pageObjs[r.page].lang = r.lang
            /\ (\A d \in DefinersOfKey(r.key) : pageObjs[d].lang # r.lang)
                  => r.target = None /\ r.page = 0

\* A reference whose key is defined by exactly one page, of another language
\* than the referencing page, has not resolved.
C22_Witness ==
    \E k \in DOMAIN trace :
        /\ Cardinality(DefinersOfKey(trace[k].key)) = 1
        /\ \A d \in DefinersOfKey(trace[k].key) : pageObjs[d].lang # trace[k].lang
        /\ trace[k].target = None

-----------------------------------------------------------------------------
(* C23 *)

\* The qualified key of the harness's call.
CalledKey == pageObjs[call.page].label_namespace \o ":" \o call.name

\* C23: registering a bare name on a page whose labels already hold the
\* qualified key prints an error naming the key and stores the new target
\* under it; the keys of the page, in their order, are the same as before,
\* and the labels of the other page are unchanged.
C23_DuplicateLabelOverwrites ==
    (pc = "label_called" /\ dictHas(call.before[call.page].labels, CalledKey)) =>
        /\ Len(console) = 1
        /\ console[1] = "error: multiple definitions of label " \o CalledKey
                        \o "; overriding to '" \o call.target \o "'"
        /\ dictGet(pageObjs[call.page].labels, CalledKey) = call.target
        /\ dictKeys(pageObjs[call.page].labels) = dictKeys(call.before[call.page].labels)
        /\ \A k \in DOMAIN pageObjs[call.page].labels :
              pageObjs[call.page].labels[k][1] # CalledKey
                 => pageObjs[call.page].labels[k] = call.before[call.page].labels[k]
        /\ \A q \in DOMAIN pageObjs \ {call.page} : pageObjs[q] = call.before[q]

\* The key was registered first of two with another target, and holds the
\* new target after the call.
C23_Witness ==
    /\ pc = "label_called"
    /\ Len(call.before[call.page].labels) = 2
    /\ call.before[call.page].labels[1][1] = CalledKey
    /\ call.before[call.page].labels[1][2] # call.target
    /\ pageObjs[call.page].labels[1] = <<CalledKey, call.target>>

-----------------------------------------------------------------------------
(* C24 *)

\* A hyperlink the patching pass has nothing to do for: its href is absent
\* or starts with none of "=", "=:" and "@".
PlainLink(old) ==
    /\ old.tag = "a"
    /\ \/ old.href = None
       \/ ~startswith(old.href, "=") /\ ~startswith(old.href, "@")

\* Page p has a hyperlink without href.
HasLinkWithoutHref(p) ==
    \E t \in DOMAIN p.trees :
        \E e \in DOMAIN p.trees[t].old :
            p.trees[t].old[e].tag = "a" /\ p.trees[t].old[e].href = None

\* In a patched page, a plain hyperlink is as it was parsed.
PlainLinksUntouched ==
    \A p \in PatchedPages :
        \A t \in DOMAIN p.trees :
            \A e \in DOMAIN p.trees[t].old :
                PlainLink(p.trees[t].old[e]) => p.trees[t].new[e] = p.trees[t].old[e]

\* Patching a page that has a plain hyperlink raises no error for it, and
\* the pass goes on.
PlainLinksPatchedWithoutError ==
    (/\ pc = "crossref" /\ idx \in DOMAIN PageSet
     /\ \E p \in {PageAt(idx)} :
           \E t \in DOMAIN p.trees : \E e \in DOMAIN p.trees[t].old :
               PlainLink(p.trees[t].old[e]))
    => (pc' = "crossref" /\ idx' = idx + 1)

\* C24: a hyperlink whose href is absent or starts with none of "=", "=:"
\* and "@" is left unchanged by the patching pass, href or its absence, text
\* and class, and patching it raises no error.
C24_PlainLinkUntouched ==
    []PlainLinksUntouched /\ [][PlainLinksPatchedWithoutError]_vars

-----------------------------------------------------------------------------
(* C25 *)

\* The (id, lang) pair of the page object o.
IdLang(o) == <<pageObjs[o].id, pageObjs[o].lang>>

\* C25: after page discovery, no two pages of one bundle have the same
\* (id, lang) pair, also when a bundle that detects suffixes holds an
\* unsuffixed file and a file suffixed with its default language.
C25_IdLangUniqueInBundle ==
    \A b \in DOMAIN bundles :
        bundles[b]._pages # None =>
            \A i, j \in DOMAIN bundles[b]._pages :
                i # j => IdLang(bundles[b]._pages[i][2]) # IdLang(bundles[b]._pages[j][2])

-----------------------------------------------------------------------------
(* C26 *)

\* What the metadata-extraction pass has set of the page pg.
ParsedFields(pg) ==
    <<pg.bundle, pg.id, pg.lang, pg.url_override, pg.title, pg.template,
      pg.label_namespace, pg.labels>>

\* A step taken after the metadata-extraction pass leaves the bundles and
\* the parsed fields and the url() of every page as they are, and changes a
\* page at all only in the patching pass.
PagesReadOnlyStep ==
    pc \in {"crossref", "render", "copy"} =>
        /\ bundles' = bundles
        /\ DOMAIN pageObjs' = DOMAIN pageObjs
        /\ \A o \in DOMAIN pageObjs :
              /\ ParsedFields(pageObjs'[o]) = ParsedFields(pageObjs[o])
              /\ url(bundles', pageObjs'[o]) = url(bundles, pageObjs[o])
        /\ (pc \in {"render", "copy"} => pageObjs' = pageObjs)

\* C26: once the metadata-extraction pass has finished, a step of the
\* patching pass, of rendering or of copying changes no page's id, lang,
\* url_override, title, template, label_namespace or labels, nor its url();
\* a step of the patching pass changes only tree, fragments and local_static
\* of pages, and the later steps change no page at all.
C26_PagesReadOnlyAfterParse == [][PagesReadOnlyStep]_vars

\* The run has ended; the patching pass has changed the tree, a fragment and
\* the local static URL of a page, which holds a label.
C26_Witness ==
    /\ pc = "done"
    /\ \E p \in PatchedPages :
          /\ p.trees[1].new # p.trees[1].old
          /\ p.trees[2].new # p.trees[2].old
          /\ pageObjs[p.obj].local_static # "/"
          /\ pageObjs[p.obj].labels # <<>>

-----------------------------------------------------------------------------
(* C27 *)

\* The pages of the page set whose source file registers the bare name n
\* (a metadata line `label: @n`), as views.
RegisteringPages(n) ==
    With(PageSet, LAMBDA pages :
         {[obj |-> pages[i][2], bundle |-> pageObjs[pages[i][2]].bundle,
           lang |-> pageObjs[pages[i][2]].lang] :
             i \in {j \in DOMAIN pages : ("@" \o n) \in SourceLabels(pages[j][1])}})

\* The resolution r has found the page P: P is among its hits, and it has
\* returned the target of the first hit.
Finds(r, P) ==
    With(Definers(r.key, r.lang), LAMBDA hits :
         /\ P.obj \in Range(hits)
         /\ r.nfound = Len(hits)
         /\ r.target = dictGet(pageObjs[hits[1]].labels, r.key)
         /\ r.target # None)

\* C27: a label registered on page P under the bare name n is found by
\* resolving the bare token n from any page of P's bundle and language, and
\* by resolving the absolute token <namespace of P's bundle>:n from any page
\* of P's language, for the root bundle as for sub-bundles.
C27_QualificationConsistent ==
    \A k \in DOMAIN trace :
        \E r \in {trace[k]} :
            /\ ~startswith(r.label, ":") =>
                  \A P \in RegisteringPages(r.label) :
                      (/\ P.bundle = pageObjs[r.source].bundle
                       /\ P.lang = pageObjs[r.source].lang) => Finds(r, P)
            /\ \A n \in {"foo"} : \A P \in RegisteringPages(n) :
                  (/\ r.label = labelNamespace(bundles, P.bundle) \o ":" \o n
                   /\ P.lang = pageObjs[r.source].lang) => Finds(r, P)

\* A page of the sub-bundle has resolved the bare token foo to a page of its
\* bundle, and the absolute token :foo to a page of the root bundle.
C27_Witness ==
    /\ \E k \in DOMAIN trace : \E P \in RegisteringPages("foo") :
          /\ trace[k].label = "foo"
          /\ bundles[pageObjs[trace[k].source].bundle]._dir = "sub"
          /\ P.bundle = pageObjs[trace[k].source].bundle
          /\ Finds(trace[k], P)
    /\ \E k \in DOMAIN trace : \E P \in RegisteringPages("foo") :
          /\ trace[k].label = ":foo"
          /\ bundles[pageObjs[trace[k].source].bundle]._dir = "sub"
          /\ bundles[P.bundle]._dir = "."
          /\ Finds(trace[k], P)

-----------------------------------------------------------------------------
(* C28 *)

\* Whether initialParse has parsed the i-th page of the page set.
Parsed(i) ==
    \/ pc = "parse" /\ i < idx
    \/ pc \in {"crossref", "render", "copy", "done"}

\* C28: once a page is parsed, it holds a label for every `label` value of
\* its metadata block, and the target stored for each of its labels is the
\* page's url() as it stands after the whole block, whatever the order of
\* the `label`, `url` and `lang` lines.
C28_LabelTargetIsFinalUrl ==
    \A i \in DOMAIN PageSet :
        Parsed(i) =>
            \E pg \in {pageObjs[PageSet[i][2]]} :
                /\ Len(pg.labels) = Cardinality(SourceLabels(PageSet[i][1]))
                /\ \A k \in DOMAIN pg.labels :
                      ReturnedStr(pg.labels[k][2]) = url(bundles, pg)

\* The run has ended; the page whose metadata block has `label` before `url`
\* and `lang` holds the label with its overridden URL as target.
C28_Witness ==
    /\ pc = "done"
    /\ dictGet(fs.sources, "page.md").meta
         = <<MetaLines[1], MetaLines[2], MetaLines[3]>>
    /\ \E i \in DOMAIN PageSet :
          /\ PageSet[i][1] = "page.md"
          /\ pageObjs[PageSet[i][2]].lang = "fr"
          /\ pageObjs[PageSet[i][2]].labels = << <<":foo", "/over.html">> >>

-----------------------------------------------------------------------------
(* C29 *)

\* The nesting of the loadBundle calls stays below the interpreter's limit:
\* no call raises RecursionError.
LoadNestingBounded == pc = "load_call" => Len(call.stack) < RecursionLimit

\* C29: loadBundle(dir, recursive=True) terminates for every set of bundle
\* configurations, also when a bundle lists itself or one of its ancestors
\* under inputs.bundles: the nesting of its calls never exhausts the
\* interpreter's stack, and the outermost call returns.
C29_LoadBundleTerminates ==
    []LoadNestingBounded /\ <>(pc = "load_done")

-----------------------------------------------------------------------------
(* C30 *)

\* The pages of the page set that have no URL override, as views: the page
\* object, its (id, lang) pair, whether its bundle has a languages table,
\* its url() and its output_path().
DefaultUrlPages ==
    {[obj |-> o, idlang |-> IdLang(o),
      table |-> LanguageCodes(pageObjs[o].bundle) # {},
      url |-> url(bundles, pageObjs[o]),
      output_path |-> output_path(bundles, pageObjs[o])] :
        o \in {x \in Range(Order) : pageObjs[x].url_override = None}}

\* C30: once the pages are parsed, two distinct pages with distinct
\* (id, lang) pairs and no URL override have neither the same url() nor the
\* same output_path(), also when their bundles differ in whether
\* `languages` is declared.
C30_DistinctPagesDistinctUrls ==
    pc \in {"crossref", "render", "copy", "done"} =>
        \A p \in DefaultUrlPages : \A q \in DefaultUrlPages :
            (p.obj # q.obj /\ p.idlang # q.idlang) =>
                /\ (p.url.exc = None /\ q.url.exc = None) => p.url # q.url
                /\ (p.output_path.exc = None /\ q.output_path.exc = None)
                      => p.output_path # q.output_path

=============================================================================
